---- MODULE Spec2Model ----
(***************************************************************************)
(* Model of the climbing-resources MCP servers: the book-based server of   *)
(* src/src/index.js (ClimbingResourcesServer) and the image-capable        *)
(* variant of src/unnamed/part_000 (ComprehensiveClimbingPDFServer).       *)
(*                                                                         *)
(* JavaScript strings are sequences of one-character strings; character    *)
(* positions are 0-based as in the source, sequence indices are 1-based.   *)
(***************************************************************************)
EXTENDS Integers, Sequences, FiniteSets, TLC

VARIABLES
  library,   \* the Books directory: per chapter the PDF and its sidecar metadata
  cache,     \* the extracted_content directory: per cache file its JSON content
  clock,     \* the value new Date() reads at the next extraction
  written,   \* the in-memory record the last comprehensiveExtractPDF returned
  extracted, \* the chapters (book, file) whose extraction has persisted a record
  last,      \* the last request served and the result it returned
  fnIn,      \* arguments of a pure function under check
  fnOut,     \* its result
  server,    \* which of the two servers is running: "book", "image", "none"
  writing,   \* the fs.writeFile of a cache file that has begun and not ended
  inflight,  \* the extracting requests being served together, each at its await
  console    \* the functions console.error and console.warn of the process

vars ==
  <<library, cache, clock, written, extracted, last, fnIn, fnOut, server, writing,
    inflight, console>>

-----------------------------------------------------------------------------
(* Bounds of the model.                                                    *)

\* EXTRACTION_CONFIG.CHUNK_SIZE, scaled down from 150000 characters.
CHUNK_SIZE == 3
\* The "poor result" threshold of comprehensiveExtractPDF, scaled down from 100.
MIN_READER_TEXT == 4
\* Number of extractions a behaviour may run (values the clock takes).
MaxClock == 2
\* Longest text and largest chunk size of the chunker's own specification.
MaxTextLen == 4
MaxChunkSize == 3
MaxPages == 2

-----------------------------------------------------------------------------
(* JavaScript values.                                                      *)

\* undefined is the empty tuple, a defined value v is <<v>>.
Undefined == <<>>
Def(v) == <<v>>
\* null (getCachedContent's "not found", a missing sidecar file).
Null == [null |-> TRUE]

\* console.error and console.warn as the process starts: error counts the
\* filters wrapped around the original function, warn is the original
\* function or the function that drops its message.
OriginalConsole == [error |-> 0, warn |-> "original"]

Min(a, b) == IF a < b THEN a ELSE b
Max(a, b) == IF a > b THEN a ELSE b

-----------------------------------------------------------------------------
(* Strings.                                                                *)

LowerChars == {"a","b","c","d","e","f","g","h","i","j","k","l","m",
               "n","o","p","q","r","s","t","u","v","w","x","y","z"}
UpperChars == {"A","B","C","D","E","F","G","H","I","J","K","L","M",
               "N","O","P","Q","R","S","T","U","V","W","X","Y","Z"}
DigitChars == {"0","1","2","3","4","5","6","7","8","9"}
SpaceChars == {" ", "\n", "\t"}
PunctChars == {".", ",", ":", ";", "!", "?"}

LowerOf ==
  [c \in UpperChars |->
     CASE c = "A" -> "a" [] c = "B" -> "b" [] c = "C" -> "c" [] c = "D" -> "d"
       [] c = "E" -> "e" [] c = "F" -> "f" [] c = "G" -> "g" [] c = "H" -> "h"
       [] c = "I" -> "i" [] c = "J" -> "j" [] c = "K" -> "k" [] c = "L" -> "l"
       [] c = "M" -> "m" [] c = "N" -> "n" [] c = "O" -> "o" [] c = "P" -> "p"
       [] c = "Q" -> "q" [] c = "R" -> "r" [] c = "S" -> "s" [] c = "T" -> "t"
       [] c = "U" -> "u" [] c = "V" -> "v" [] c = "W" -> "w" [] c = "X" -> "x"
       [] c = "Y" -> "y" [] c = "Z" -> "z"]

LowerChar(c) == IF c \in UpperChars THEN LowerOf[c] ELSE c

\* String.prototype.toLowerCase
ToLowerCase(s) == [i \in 1..Len(s) |-> LowerChar(s[i])]

\* The regular expression class \w; \W is its complement.
IsWordChar(c) == c \in LowerChars \cup UpperChars \cup DigitChars \cup {"_"}

\* s.substring(from, to) with 0-based bounds, clamped to the string as
\* JavaScript clamps them.
Substring(s, from, to) ==
  LET a == Max(0, Min(from, Len(s)))
      b == Max(0, Min(to, Len(s)))
  IN  SubSeq(s, Min(a, b) + 1, Max(a, b))

\* Whether word occurs in s at 1-based index i.
MatchesAt(s, word, i) ==
  /\ i + Len(word) - 1 <= Len(s)
  /\ \A j \in 1..Len(word) : s[i + j - 1] = word[j]

\* String.prototype.includes
Includes(s, word) == \E i \in 1..(Len(s) + 1) : MatchesAt(s, word, i)

\* The set of the elements of a sequence (the characters of a string).
Range(s) == {s[i] : i \in 1..Len(s)}

\* String.prototype.includes, chars being the set of the characters of s: a
\* word with a character s lacks occurs nowhere.
Occurs(word, s, chars) ==
  /\ \A j \in 1..Len(word) : word[j] \in chars
  /\ Includes(s, word)

\* (s.match(new RegExp(word, 'g')) || []).length for a word of \w characters:
\* the number of non-overlapping occurrences, scanning from the left.
RECURSIVE CountFrom(_, _, _)
CountFrom(s, word, i) ==
  IF i + Len(word) - 1 > Len(s) THEN 0
  ELSE IF MatchesAt(s, word, i) THEN 1 + CountFrom(s, word, i + Len(word))
  ELSE CountFrom(s, word, i + 1)

CountMatches(s, word) == CountFrom(s, word, 1)

\* s.split(/\W+/): the pieces between maximal runs of non-word characters,
\* the empty pieces at either end included.
RECURSIVE SplitFrom(_, _, _)
SplitFrom(s, i, cur) ==
  IF i > Len(s) THEN <<cur>>
  ELSE IF IsWordChar(s[i]) THEN SplitFrom(s, i + 1, Append(cur, s[i]))
  ELSE IF i > 1 /\ ~IsWordChar(s[i - 1]) THEN SplitFrom(s, i + 1, cur)
  ELSE <<cur>> \o SplitFrom(s, i + 1, <<>>)

SplitNonWord(s) == SplitFrom(s, 1, <<>>)

LongerThanTwo(w) == Len(w) > 2

\* query.toLowerCase().split(/\W+/).filter(w => w.length > 2)
QueryWords(query) == SelectSeq(SplitNonWord(ToLowerCase(query)), LongerThanTwo)

\* String.prototype.trim
RECURSIVE TrimStart(_)
TrimStart(s) ==
  IF s # <<>> /\ Head(s) \in SpaceChars THEN TrimStart(Tail(s)) ELSE s

RECURSIVE TrimEnd(_)
TrimEnd(s) ==
  IF s # <<>> /\ s[Len(s)] \in SpaceChars THEN TrimEnd(SubSeq(s, 1, Len(s) - 1)) ELSE s

Trim(s) == TrimEnd(TrimStart(s))

\* Array.prototype.slice(0, n)
Slice(seq, n) == SubSeq(seq, 1, Min(n, Len(seq)))

\* Concatenation of a sequence of strings.
RECURSIVE Concat(_)
Concat(ss) == IF ss = <<>> THEN <<>> ELSE Head(ss) \o Concat(Tail(ss))

\* The elements of a finite set of integers in increasing order.
RECURSIVE SortedInts(_)
SortedInts(S) ==
  IF S = {} THEN <<>>
  ELSE LET m == CHOOSE x \in S : \A y \in S : x <= y
       IN  <<m>> \o SortedInts(S \ {m})

-----------------------------------------------------------------------------
(* Topics.                                                                 *)

climbingTerms ==
  << <<"a","n","c","h","o","r">>, <<"a","n","c","h","o","r","s">>,
     <<"b","e","l","a","y">>, <<"b","e","l","a","y","i","n","g">>,
     <<"r","a","p","p","e","l">>, <<"r","a","p","p","e","l","l","i","n","g">>,
     <<"k","n","o","t">>, <<"k","n","o","t","s">>, <<"r","o","p","e">>,
     <<"c","a","r","a","b","i","n","e","r">>, <<"c","a","m">>, <<"n","u","t">>,
     <<"p","r","o","t","e","c","t","i","o","n">>, <<"p","i","t","c","h">>,
     <<"m","u","l","t","i","p","i","t","c","h">>, <<"t","r","a","d">>,
     <<"t","r","a","d","i","t","i","o","n","a","l">>, <<"s","p","o","r","t">>,
     <<"l","e","a","d">>, <<"f","o","l","l","o","w">>,
     <<"c","l","i","m","b","i","n","g">>,
     <<"t","e","c","h","n","i","q","u","e">>, <<"s","a","f","e","t","y">>,
     <<"S","E","R","E","N","E">>,
     <<"e","q","u","a","l","i","z","a","t","i","o","n">> >>

\* extractTopics: the vocabulary terms that occur in the lower-cased text,
\* in vocabulary order.
\* Topics found by comparing both sides in lower case.
extractTopicsAnyCase(text) ==
  LET lowerText == ToLowerCase(text)
      found(term) == Includes(lowerText, ToLowerCase(term))
  IN  SelectSeq(climbingTerms, found)

extractTopics(text) ==
  LET lowerText == ToLowerCase(text)
      chars == Range(lowerText)
      found(term) == Occurs(term, lowerText, chars)
  IN  SelectSeq(climbingTerms, found)

-----------------------------------------------------------------------------
(* Chunker (src/src/index.js).                                             *)

\* a || b on optional numbers: b when a is undefined or 0.
JsOr(a, b) == IF a = Undefined \/ a = Def(0) THEN b ELSE a

\* createCharToPageMap: walks the pages in page order and gives consecutive
\* character positions to each page, pageText.length + 1 positions a page,
\* never past the end of the text.  The result is a sequence whose element
\* c + 1 is the page of character position c.
RECURSIVE CharMapWalk(_, _, _, _)
CharMapWalk(fullText, pageData, pages, map) ==
  IF pages = <<>> THEN map
  ELSE LET pageNum == Head(pages)
           pageLength == Len(pageData[pageNum]) + 1
           n == Min(pageLength, Len(fullText) - Len(map))
       IN  CharMapWalk(fullText, pageData, Tail(pages),
                       map \o [i \in 1..n |-> pageNum])

createCharToPageMap(fullText, pageData) ==
  CharMapWalk(fullText, pageData, SortedInts(DOMAIN pageData), <<>>)

\* charToPageMap[c]
PageOfChar(charToPageMap, c) ==
  IF c >= 0 /\ c + 1 <= Len(charToPageMap) THEN Def(charToPageMap[c + 1])
  ELSE Undefined

\* The loop of createPageAwareChunks from position i on, chunks being the
\* chunks pushed so far.  A chunk's pageReferences and sectionHeading
\* (strings, or null) are left out of the model.
RECURSIVE ChunkLoop(_, _, _, _, _, _)
ChunkLoop(fullText, charToPageMap, totalPages, chunkSize, i, chunks) ==
  IF ~(i < Len(fullText)) THEN chunks
  ELSE LET chunkText == Substring(fullText, i, i + chunkSize)
           endChar   == Min(i + chunkSize, Len(fullText))
           startPage == JsOr(PageOfChar(charToPageMap, i), Def(1))
           endPage   == JsOr(PageOfChar(charToPageMap, endChar - 1), totalPages)
       IN  ChunkLoop(fullText, charToPageMap, totalPages, chunkSize, i + chunkSize,
                     Append(chunks, [id        |-> Len(chunks),
                                     text      |-> chunkText,
                                     startChar |-> i,
                                     endChar   |-> endChar,
                                     startPage |-> startPage,
                                     endPage   |-> endPage,
                                     topics    |-> extractTopics(chunkText)]))

\* A chunker that forgets to clamp the last chunk's endChar to the text.
RECURSIVE ChunkLoopNoClamp(_, _, _, _, _, _)
ChunkLoopNoClamp(fullText, charToPageMap, totalPages, chunkSize, i, chunks) ==
  IF ~(i < Len(fullText)) THEN chunks
  ELSE ChunkLoopNoClamp(fullText, charToPageMap, totalPages, chunkSize, i + chunkSize,
                     Append(chunks, [id        |-> Len(chunks),
                                     text      |-> Substring(fullText, i, i + chunkSize),
                                     startChar |-> i,
                                     endChar   |-> i + chunkSize,
                                     startPage |-> Def(1),
                                     endPage   |-> totalPages,
                                     topics    |-> <<>>]))

PageAwareChunksNoClamp(fullText, pageData, totalPages, chunkSize) ==
  ChunkLoopNoClamp(fullText, <<>>, totalPages, chunkSize, 0, <<>>)

\* createPageAwareChunks with the configured chunk size as a parameter.
PageAwareChunks(fullText, pageData, totalPages, chunkSize) ==
  ChunkLoop(fullText, createCharToPageMap(fullText, pageData), totalPages,
            chunkSize, 0, <<>>)

createPageAwareChunks(fullText, pageData, totalPages) ==
  PageAwareChunks(fullText, pageData, totalPages, CHUNK_SIZE)

\* createSearchIndex: word -> the ids of the chunks that hold it, in chunk
\* order, one entry an occurrence.
createSearchIndex(fullText, textChunks) ==
  LET words == [k \in 1..Len(textChunks) |->
                  SelectSeq(SplitNonWord(ToLowerCase(textChunks[k].text)), LongerThanTwo)]
      allWords == UNION {Range(words[k]) : k \in 1..Len(textChunks)}
      idsIn(word, k) == LET isWord(w) == w = word
                        IN  [j \in 1..Len(SelectSeq(words[k], isWord)) |-> textChunks[k].id]
  IN  [word \in allWords |-> Concat([k \in 1..Len(textChunks) |-> idsIn(word, k)])]

-----------------------------------------------------------------------------
(* Text reconstruction (reconstructText, src/src/index.js).                *)
(* A pattern is a record naming one of the regular expressions of the      *)
(* source; MatchLen is the length of its match at an index (0: no match),  *)
(* Replacement the text its replacement puts for a match.                  *)

\* The number of consecutive whitespace characters from index i on.
RECURSIVE WsRun(_, _)
WsRun(s, i) ==
  IF i <= Len(s) /\ s[i] \in SpaceChars THEN 1 + WsRun(s, i + 1) ELSE 0

\* /([a-z])\s+([a-z])...\s+([a-z])/ with k letters.
RECURSIVE ChainLen(_, _, _)
ChainLen(s, i, k) ==
  IF i > Len(s) \/ s[i] \notin LowerChars THEN 0
  ELSE IF k = 1 THEN 1
  ELSE LET w == WsRun(s, i + 1)
           r == ChainLen(s, i + 1 + w, k - 1)
       IN  IF w = 0 \/ r = 0 THEN 0 ELSE 1 + w + r

\* The first of the alternatives that occurs in s at index i, <<>> if none.
RECURSIVE FirstAltAt(_, _, _)
FirstAltAt(s, i, alts) ==
  IF alts = <<>> THEN <<>>
  ELSE IF MatchesAt(s, Head(alts), i) THEN Head(alts)
  ELSE FirstAltAt(s, i, Tail(alts))

IsLetter(c) == c \in LowerChars \cup UpperChars

InClass(c, class) ==
  CASE class = "lower"  -> c \in LowerChars
    [] class = "upper"  -> c \in UpperChars
    [] class = "letter" -> IsLetter(c)
    [] class = "digit"  -> c \in DigitChars
    [] class = "punct"  -> c \in PunctChars

MatchLen(pat, s, i) ==
  CASE pat.kind = "chain" -> ChainLen(s, i, pat.k)
    [] pat.kind = "pair" ->
         IF i + 1 <= Len(s) /\ InClass(s[i], pat.first) /\ InClass(s[i + 1], pat.second)
         THEN 2 ELSE 0
    [] pat.kind = "beforeWord" ->
         LET alt == FirstAltAt(s, i + 1, pat.alts)
         IN  IF s[i] \in LowerChars /\ alt # <<>> THEN 1 + Len(alt) ELSE 0
    [] pat.kind = "afterSuffix" ->
         LET alt == FirstAltAt(s, i, pat.alts)
         IN  IF alt # <<>> /\ i + Len(alt) <= Len(s) /\ s[i + Len(alt)] \in LowerChars
             THEN Len(alt) + 1 ELSE 0
    [] pat.kind = "literal" ->
         LET n == Len(pat.word)
         IN  IF /\ i + n - 1 <= Len(s)
                /\ \A j \in 1..n : LowerChar(s[i + j - 1]) = pat.word[j]
             THEN IF pat.optS /\ i + n <= Len(s) /\ s[i + n] \in {"s", "S"}
                  THEN n + 1 ELSE n
             ELSE 0
    [] pat.kind = "spaces" ->
         IF WsRun(s, i) >= 2 THEN WsRun(s, i) ELSE 0
    [] pat.kind = "lineBreak" ->
         LET w == WsRun(s, i)
         IN  IF \E j \in i..(i + w - 1) : s[j] = "\n" THEN w ELSE 0
    [] pat.kind = "blankLines" ->
         LET n == CHOOSE n \in 0..(Len(s) - i + 1) :
                    /\ \A j \in i..(i + n - 1) : s[j] = "\n"
                    /\ (i + n > Len(s) \/ s[i + n] # "\n")
         IN  IF n >= 3 THEN n ELSE 0

NotSpace(c) == c \notin SpaceChars

Replacement(pat, m) ==
  CASE pat.kind = "chain"       -> SelectSeq(m, NotSpace)
    [] pat.kind = "pair"        -> IF pat.insert THEN <<m[1], " ", m[2]>> ELSE m
    [] pat.kind = "beforeWord"  -> <<m[1], " ">> \o Tail(m)
    [] pat.kind = "afterSuffix" -> SubSeq(m, 1, Len(m) - 1) \o <<" ", m[Len(m)]>>
    [] pat.kind = "literal"     -> pat.to
    [] pat.kind = "spaces"      -> <<" ">>
    [] pat.kind = "lineBreak"   -> <<"\n">>
    [] pat.kind = "blankLines"  -> <<"\n", "\n">>

\* text.replace(pattern, replacement) with a global pattern: the matches are
\* taken from the left, each search starting where the last match ended.
RECURSIVE ReplaceFrom(_, _, _)
ReplaceFrom(pat, s, i) ==
  IF i > Len(s) THEN <<>>
  ELSE LET n == MatchLen(pat, s, i)
       IN  IF n > 0
           THEN Replacement(pat, SubSeq(s, i, i + n - 1)) \o ReplaceFrom(pat, s, i + n)
           ELSE <<s[i]>> \o ReplaceFrom(pat, s, i + 1)

ClassChars(class) ==
  CASE class = "lower"  -> LowerChars
    [] class = "upper"  -> UpperChars
    [] class = "letter" -> LowerChars \cup UpperChars
    [] class = "digit"  -> DigitChars
    [] class = "punct"  -> PunctChars

\* Whether the pattern can match somewhere in s, chars being the set of the
\* characters of s: it cannot when s lacks a character every match holds.
MayMatch(pat, s, chars) ==
  CASE pat.kind = "literal" ->
         LET lower == ToLowerCase(s)
         IN  /\ \A j \in 1..Len(pat.word) : \E c \in chars : LowerChar(c) = pat.word[j]
             /\ Includes(lower, pat.word)
    [] pat.kind = "pair" ->
         /\ chars \cap ClassChars(pat.first) # {}
         /\ chars \cap ClassChars(pat.second) # {}
    [] pat.kind \in {"beforeWord", "afterSuffix"} ->
         \E k \in 1..Len(pat.alts) : Occurs(pat.alts[k], s, chars)
    [] OTHER -> chars \cap SpaceChars # {}

ReplaceAll(pat, s) == ReplaceFrom(pat, s, 1)

\* patterns.forEach(p => text = text.replace(p, ...)): the patterns that
\* cannot match the text leave it as it is; the first one that can is
\* applied, and the rest follow on its result.
RECURSIVE ApplyPatterns(_, _)
ApplyPatterns(pats, s) ==
  LET chars == Range(s)
      live  == {k \in 1..Len(pats) : MayMatch(pats[k], s, chars)}
      first == CHOOSE k \in live : \A j \in live : k <= j
      replaced == ReplaceAll(pats[first], s)
  IN  IF live = {} THEN s
      ELSE IF Len(replaced) >= 0
      THEN ApplyPatterns(SubSeq(pats, first + 1, Len(pats)), replaced)
      ELSE <<>>

Pair(first, second, insert) ==
  [kind |-> "pair", first |-> first, second |-> second, insert |-> insert]
Literal(word, optS, to) ==
  [kind |-> "literal", word |-> word, optS |-> optS, to |-> to]

wordBoundaryPatterns ==
  << Pair("lower", "upper", TRUE),
     [kind |-> "beforeWord", alts |-> << <<"a","n","d">>,
                                 <<"t","h","e">>,
                                 <<"o","f">>,
                                 <<"t","o">>,
                                 <<"i","n">>,
                                 <<"f","o","r">>,
                                 <<"w","i","t","h">>,
                                 <<"a","r","e">>,
                                 <<"c","a","n">>,
                                 <<"w","i","l","l">>,
                                 <<"m","a","y">> >>],
     [kind |-> "afterSuffix", alts |-> << <<"i","n","g">>,
                                  <<"t","i","o","n">>,
                                  <<"e","d">>,
                                  <<"e","r">>,
                                  <<"l","y">>,
                                  <<"n","e","s","s">> >>],
     Pair("letter", "digit", TRUE),
     Pair("digit", "letter", TRUE),
     Pair("letter", "punct", FALSE),
     Pair("punct", "letter", TRUE) >>

climbingFixes ==
  << Literal(<<"p","l","a","c","e","m","e","n","t">>, TRUE, <<"p","l","a","c","e","m","e","n","t">>),
     Literal(<<"a","n","c","h","o","r">>, TRUE, <<"a","n","c","h","o","r">>),
     Literal(<<"p","r","o","t","e","c","t","i","o","n">>, FALSE, <<"p","r","o","t","e","c","t","i","o","n">>),
     Literal(<<"c","a","r","a","b","i","n","e","r">>, TRUE, <<"c","a","r","a","b","i","n","e","r">>),
     Literal(<<"g","e","n","e","r","a","l","l","y">>, FALSE, <<"g","e","n","e","r","a","l","l","y">>),
     Literal(<<"s","t","r","o","n","g","e","r">>, FALSE, <<"s","t","r","o","n","g","e","r">>),
     Literal(<<"s","m","a","l","l","e","r">>, FALSE, <<"s","m","a","l","l","e","r">>),
     Literal(<<"l","a","r","g","e","r">>, FALSE, <<"l","a","r","g","e","r">>),
     Literal(<<"i","m","p","o","r","t","a","n","t">>, FALSE, <<"i","m","p","o","r","t","a","n","t">>) >>

commonWordsMap ==
  << Literal(<<"g","e","n","e"," ","r","a","l","l","y">>, FALSE,
             <<"g","e","n","e","r","a","l","l","y">>),
     Literal(<<"p","l","a","c","e"," ","m","e","n","t">>, FALSE,
             <<"p","l","a","c","e","m","e","n","t">>),
     Literal(<<"p","l","a","c","e"," ","m","e","n","t","s">>, FALSE,
             <<"p","l","a","c","e","m","e","n","t","s">>),
     Literal(<<"i","m","p","o","r","t"," ","a","n","t">>, FALSE,
             <<"i","m","p","o","r","t","a","n","t">>),
     Literal(<<"s","t","r","o","n","g"," ","e","r">>, FALSE,
             <<"s","t","r","o","n","g","e","r">>),
     Literal(<<"s","m","a","l","l"," ","e","r">>, FALSE,
             <<"s","m","a","l","l","e","r">>),
     Literal(<<"l","a","r","g"," ","e","r">>, FALSE,
             <<"l","a","r","g","e","r">>),
     Literal(<<"f","i","g"," ","u","r","e">>, FALSE,
             <<"f","i","g","u","r","e">>),
     Literal(<<"a","n","c","h"," ","o","r">>, FALSE,
             <<"a","n","c","h","o","r">>),
     Literal(<<"a","n","c","h"," ","o","r","s">>, FALSE,
             <<"a","n","c","h","o","r","s">>),
     Literal(<<"p","r","o","t","e","c","t"," ","i","o","n">>, FALSE,
             <<"p","r","o","t","e","c","t","i","o","n">>),
     Literal(<<"c","a","r","a"," ","b","i","n"," ","e","r">>, FALSE,
             <<"c","a","r","a","b","i","n","e","r">>),
     Literal(<<"c","a","r","a"," ","b","i","n"," ","e","r","s">>, FALSE,
             <<"c","a","r","a","b","i","n","e","r","s">>) >>

reconstructText(rawText) ==
  IF rawText = Undefined \/ Len(rawText) = 0 THEN <<>>
  ELSE ApplyPatterns(commonWordsMap,
         Trim(ApplyPatterns(<< [kind |-> "spaces"], [kind |-> "lineBreak"],
                               [kind |-> "blankLines"] >>,
           ApplyPatterns(climbingFixes,
             ApplyPatterns(wordBoundaryPatterns,
               ApplyPatterns(<< [kind |-> "chain", k |-> 3],
                                [kind |-> "chain", k |-> 2],
                                [kind |-> "chain", k |-> 5] >>, rawText))))))

-----------------------------------------------------------------------------
(* Text extractors (src/src/index.js).  A PDF is modelled by what the two  *)
(* parsing libraries deliver for it: the items PdfReader passes to the     *)
(* callback (or its error), and the event PDF2JSON raises.                 *)

ItemPage(n) == [page |-> Def(n), text |-> Undefined]
ItemText(t) == [page |-> Undefined, text |-> Def(t)]

\* What a caller reads from the value an extractor resolved with: an object's
\* own fields, or undefined for every field of the string ''.
EmptyStringResult ==
  [text |-> Undefined, pageData |-> Undefined, totalPages |-> Undefined]

\* array.join('\n')
RECURSIVE Join(_)
Join(ss) ==
  IF ss = <<>> THEN <<>>
  ELSE IF Len(ss) = 1 THEN Head(ss)
  ELSE Head(ss) \o <<"\n">> \o Join(Tail(ss))

\* The callback of extractTextWithPdfReader over the items before the end of
\* the document.
RECURSIVE ReaderWalk(_, _, _)
ReaderWalk(items, pageText, currentPage) ==
  IF items = <<>> THEN pageText
  ELSE LET item == Head(items)
           page == IF item.page # Undefined /\ item.page # Def(0)
                   THEN item.page[1] ELSE currentPage
           opened == IF page \in DOMAIN pageText THEN pageText
                     ELSE IF item.page # Undefined /\ item.page # Def(0)
                     THEN [p \in DOMAIN pageText \cup {page} |->
                             IF p = page THEN <<>> ELSE pageText[p]]
                     ELSE pageText
           added == IF item.text # Undefined /\ item.text # Def(<<>>)
                    THEN [p \in DOMAIN opened \cup {page} |->
                            IF p = page
                            THEN (IF page \in DOMAIN opened THEN opened[page] ELSE <<>>)
                                   \o item.text[1] \o <<" ">>
                            ELSE opened[p]]
                    ELSE opened
       IN  ReaderWalk(Tail(items), added, page)

extractTextWithPdfReader(reader) ==
  IF reader.error
  THEN [text |-> Def(<<>>), pageData |-> Def(<<>>), totalPages |-> Undefined]
  ELSE LET pageText    == ReaderWalk(reader.items, <<>>, 0)
           sortedPages == SortedInts(DOMAIN pageText)
           fullText    == Trim(Join([k \in 1..Len(sortedPages) |-> pageText[sortedPages[k]]]))
       IN  [text       |-> Def(fullText),
            pageData   |-> Def(pageText),
            totalPages |-> Def(Len(sortedPages))]

\* decodeURIComponent on the escapes the model's documents use: %20 is a
\* space, a % that no two characters follow is malformed (URIError).
RECURSIVE DecodeFrom(_, _)
DecodeFrom(t, i) ==
  IF i > Len(t) THEN [ok |-> TRUE, text |-> <<>>]
  ELSE IF t[i] # "%"
  THEN LET rest == DecodeFrom(t, i + 1)
       IN  [ok |-> rest.ok, text |-> <<t[i]>> \o rest.text]
  ELSE IF i + 2 <= Len(t) /\ t[i + 1] = "2" /\ t[i + 2] = "0"
  THEN LET rest == DecodeFrom(t, i + 3)
       IN  [ok |-> rest.ok, text |-> <<" ">> \o rest.text]
  ELSE [ok |-> FALSE, text |-> <<>>]

decodeURIComponent(t) == DecodeFrom(t, 1)

\* The text one run adds to its page: decoded (the raw text when decoding
\* throws), runs of whitespace collapsed, trimmed, a space appended.
SpaceAfter(clean) == IF clean = <<>> THEN <<>> ELSE clean \o <<" ">>

\* decodeURIComponent(T), or T itself when decoding throws.
Decoded(T, decoded) == IF decoded.ok THEN decoded.text ELSE T

RunText(T) ==
  IF T = <<>> THEN <<>>
  ELSE SpaceAfter(Trim(ReplaceAll([kind |-> "spaces"], Decoded(T, decodeURIComponent(T)))))

PageTextOf(page) == Concat([k \in 1..Len(page) |-> RunText(page[k])])

\* The value resolved for the texts of the pages, in page order.
PagesResult(pageTexts) ==
  [text       |-> Def(reconstructText(
                        Concat([n \in 1..Len(pageTexts) |-> pageTexts[n] \o <<"\n">>]))),
   pageData   |-> Def([n \in 1..Len(pageTexts) |-> Trim(pageTexts[n])]),
   totalPages |-> Def(Len(pageTexts))]

extractTextWithPDF2JSON(pdf2json) ==
  IF pdf2json.event \in {"dataError", "parseThrows"} THEN EmptyStringResult
  ELSE IF ~pdf2json.iterable
  THEN [text |-> Def(<<>>), pageData |-> Def(<<>>), totalPages |-> Undefined]
  ELSE PagesResult([n \in 1..Len(pdf2json.Pages) |-> PageTextOf(pdf2json.Pages[n])])

-----------------------------------------------------------------------------
(* Cache store (src/src/index.js).                                         *)

PDF_EXT  == <<".", "p", "d", "f">>
JSON_EXT == <<".", "j", "s", "o", "n">>

\* name.replace('.pdf', '.json'): the first occurrence only.
RECURSIVE ReplaceFirst(_, _, _, _)
ReplaceFirst(s, from, to, i) ==
  IF i > Len(s) THEN <<>>
  ELSE IF MatchesAt(s, from, i) THEN to \o SubSeq(s, i + Len(from), Len(s))
  ELSE <<s[i]>> \o ReplaceFirst(s, from, to, i + 1)

\* The name of a chapter's cache file within EXTRACTED_DIR.
CacheFile(chapterName) == ReplaceFirst(chapterName, PDF_EXT, JSON_EXT, 1)

\* object.field, undefined when the object has no such property.
Get(object, field) ==
  IF field \in DOMAIN object THEN object[field] ELSE Undefined

\* The properties JSON.stringify writes for an object, in order: a property
\* whose value is undefined is not written.
Properties(object, keys, optional) ==
  LET isWritten(key) == key \notin optional \/ object[key] # Undefined
      pair(key)     == <<key, object[key]>>
      kept          == SelectSeq(keys, isWritten)
  IN  [k \in 1..Len(kept) |-> pair(kept[k])]

\* The object JSON.parse builds from the properties of a JSON object.
ObjectOf(properties) ==
  LET keys == {properties[k][1] : k \in 1..Len(properties)}
      at(key) == CHOOSE k \in 1..Len(properties) : properties[k][1] = key
  IN  [key \in keys |-> properties[at(key)][2]]

ContentKeys ==
  <<"chapterName", "extractedAt", "text", "totalPages", "pageData", "textChunks",
    "searchIndex">>
ChunkKeys ==
  <<"id", "text", "startChar", "endChar", "startPage", "endPage", "topics">>

\* A serialiser that leaves out a chunk's topics when there are none.
JSONStringifyNoEmptyTopics(extractedContent) ==
  LET chunks == extractedContent.textChunks
      keysOf(chunk) == IF chunk.topics = <<>>
                       THEN SelectSeq(ChunkKeys, LAMBDA key : key # "topics")
                       ELSE ChunkKeys
      json   == [extractedContent EXCEPT
                   !.textChunks = [k \in 1..Len(chunks) |->
                                     Properties(chunks[k], keysOf(chunks[k]), {"endPage"})]]
  IN  Properties(json, ContentKeys, {"totalPages"})

\* JSON.stringify(extractedContent, null, 2): the properties of the record
\* and of each chunk as the file lists them.
JSONStringify(extractedContent) ==
  LET chunks == extractedContent.textChunks
      json   == [extractedContent EXCEPT
                   !.textChunks = [k \in 1..Len(chunks) |->
                                     Properties(chunks[k], ChunkKeys, {"endPage"})]]
  IN  Properties(json, ContentKeys, {"totalPages"})

\* The content of a file that is empty or cut short: JSON.parse throws.
Unparseable == <<>>

\* The objects of the chunks of a parsed record.
ChunkObjects(object, chunks) ==
  [object EXCEPT !.textChunks = [k \in 1..Len(chunks) |-> ObjectOf(chunks[k])]]

\* The object JSON.parse builds from the properties of a cache file.
ParsedObject(object) ==
  IF "textChunks" \in DOMAIN object THEN ChunkObjects(object, object.textChunks)
  ELSE object

\* JSON.parse of a cache file that holds a JSON object.
JSONParse(json) == ParsedObject(ObjectOf(json))

\* A reader that takes a file it cannot parse for an object without
\* properties of a record.
ParsedOrEmpty(json) ==
  IF json = Unparseable THEN [chapterName |-> <<>>] ELSE JSONParse(json)

\* try { return JSON.parse(content) } catch { return null }
ParsedOrNull(json) ==
  IF json = Unparseable THEN Null ELSE JSONParse(json)

\* getCachedContent: the parsed cache file, null when it cannot be read or
\* parsed.
CachedContentIn(files, chapterName) ==
  LET cacheFile == CacheFile(chapterName)
  IN  IF cacheFile \in DOMAIN files THEN ParsedOrNull(files[cacheFile]) ELSE Null

\* cached.textChunks?.length || 0
ChunkCount(cached) ==
  IF "textChunks" \in DOMAIN cached THEN Len(cached.textChunks) ELSE 0

getCachedContent(chapterName) == CachedContentIn(cache, chapterName)

\* fs.writeFile(file, data) on a directory
WriteFile(files, file, data) ==
  [f \in DOMAIN files \cup {file} |-> IF f = file THEN data ELSE files[f]]

-----------------------------------------------------------------------------
(* Extraction (src/src/index.js).                                          *)

ProtoWords == { <<"c","o","n","s","t","r","u","c","t","o","r">>,
                <<"_","_","p","r","o","t","o","_","_">> }

\* createSearchIndex throws when a word names a property every object
\* inherits: index[word] is then no array and has no push.
SearchIndexThrows(textChunks) ==
  \E k \in 1..Len(textChunks) :
    LET words == SplitNonWord(ToLowerCase(textChunks[k].text))
    IN  \E j \in 1..Len(words) : words[j] \in ProtoWords

NoPdf == [exists |-> FALSE]

\* !extractionResult.text || extractionResult.text.length < 100, with the
\* threshold of the model.
TooLittle(primary) ==
  \/ primary.text = Undefined
  \/ primary.text = Def(<<>>)
  \/ Len(primary.text[1]) < MIN_READER_TEXT

\* The extraction result comprehensiveExtractPDF goes on with: the one of
\* PdfReader unless it has no text or too little.
Preferred(primary, pdf2json) ==
  IF TooLittle(primary) THEN extractTextWithPDF2JSON(pdf2json) ELSE primary

\* fs.writeFile of the record and the return of it.
Persisted(extractedContent, files) ==
  [threw   |-> FALSE,
   content |-> extractedContent,
   files   |-> WriteFile(files, CacheFile(extractedContent.chapterName),
                         JSONStringify(extractedContent))]

\* The record built for the chunks of the text.
Recorded(chapterName, now, fullText, pageData, totalPages, textChunks, files) ==
  IF SearchIndexThrows(textChunks)
  THEN [threw |-> TRUE, files |-> files]
  ELSE Persisted([chapterName |-> chapterName,
                  extractedAt |-> now,
                  text        |-> fullText,
                  totalPages  |-> totalPages,
                  pageData    |-> pageData,
                  textChunks  |-> textChunks,
                  searchIndex |-> createSearchIndex(fullText, textChunks)], files)

\* From the destructuring of extractionResult on.
Extracted(extractionResult, chapterName, now, files) ==
  IF extractionResult.text = Undefined
  THEN [threw |-> TRUE, files |-> files]
  ELSE Recorded(chapterName, now, extractionResult.text[1], extractionResult.pageData[1],
                extractionResult.totalPages,
                createPageAwareChunks(extractionResult.text[1], extractionResult.pageData[1],
                                      extractionResult.totalPages),
                files)

\* comprehensiveExtractPDF on the PDF at filePath, read at time now with the
\* cache directory holding files: whether it threw, the record it returned
\* and the cache directory it left.
comprehensiveExtractPDF(pdf, chapterName, now, files) ==
  IF ~pdf.exists THEN [threw |-> TRUE, files |-> files]
  ELSE Extracted(Preferred(extractTextWithPdfReader(pdf.reader), pdf.pdf2json),
                 chapterName, now, files)

-----------------------------------------------------------------------------
(* The library: sample PDFs and sidecar metadata files.                    *)

Pdf(reader, pdf2json) == [exists |-> TRUE, reader |-> reader, pdf2json |-> pdf2json]
Items(items)    == [error |-> FALSE, items |-> items]
ReaderError     == [error |-> TRUE, items |-> <<>>]
DataReady(Pages) == [event |-> "dataReady", iterable |-> TRUE, Pages |-> Pages]
NotIterable     == [event |-> "dataReady", iterable |-> FALSE, Pages |-> <<>>]
DataError       == [event |-> "dataError", iterable |-> FALSE, Pages |-> <<>>]
ParseThrows     == [event |-> "parseThrows", iterable |-> FALSE, Pages |-> <<>>]

\* One page of five words; PdfReader delivers all of it.
PdfGuide ==
  Pdf(Items(<< ItemPage(1), ItemText(<<"c","a","m","n","u","t","x","y","z","c","a","m","n","u","t">>) >>),
      DataError)

\* PdfReader finds too little text; PDF2JSON delivers one page, one run.
PdfScan ==
  Pdf(Items(<< ItemPage(1), ItemText(<<"c","a","m">>) >>),
      DataReady(<< << <<"c","a","m","%","2","0","n","u","t">> >> >>))

\* Two pages, a word each.
PdfNotes ==
  Pdf(Items(<< ItemPage(1), ItemText(<<"c","a","m">>), ItemPage(2), ItemText(<<"n","u","t">>) >>),
      ParseThrows)

\* Neither library can parse the file.
PdfBroken == Pdf(ReaderError, DataError)

\* PdfReader finds no text and PDF2JSON's data cannot be walked.
PdfOdd == Pdf(Items(<< ItemPage(1) >>), NotIterable)

\* A PDF without any text.
PdfBlank == Pdf(Items(<< ItemPage(1) >>), DataReady(<< << >> >>))

NoMetadata == [exists |-> FALSE]
Metadata(title, description, keywords) ==
  [exists |-> TRUE, title |-> title, description |-> description, keywords |-> keywords]

\* A sidecar file that is not JSON, and one that holds the JSON text null.
UnparseableMetadata == [exists |-> TRUE, unparseable |-> TRUE]
NullMetadata        == [exists |-> TRUE, null |-> TRUE]

\* JSON.parse of the sidecar gives an object.
IsObject(metadata) == "title" \in DOMAIN metadata

\* { "title": "Cams", "keywords": ["cam"] }
MetaCams == Metadata(Def(<<"C","a","m","s">>), Undefined, Def(<< <<"c","a","m">> >>))
\* { "title": "Nuts" }
MetaNuts == Metadata(Def(<<"N","u","t","s">>), Undefined, Undefined)

Chapter(pdf, metadata) == [pdf |-> pdf, metadata |-> metadata]

Absent == Chapter(NoPdf, NoMetadata)

Entries ==
  { Absent,
    Chapter(PdfGuide, NoMetadata),
    Chapter(PdfScan, MetaCams),
    Chapter(PdfNotes, MetaNuts),
    Chapter(PdfBroken, NoMetadata),
    Chapter(PdfOdd, NoMetadata) }

BookA == <<"A">>
BookB == <<"B">>
File1 == <<"1",".","p","d","f">>
File2 == <<"2",".","p","d","f">>

\* The book directories and the file names a request may give, in the order
\* readdir lists them.
Books == <<BookA, BookB>>
Files == <<File1, File2>>
BookSet == {Books[k] : k \in 1..Len(Books)}
FileSet == {Files[k] : k \in 1..Len(Files)}

\* The PDFs of a book directory, in readdir order.
PdfFiles(lib, bookDir) ==
  LET present(file) == lib[<<bookDir, file>>].pdf.exists
  IN  SelectSeq(Files, present)

\* The Books directories a behaviour starts from.
Libraries ==
  {lib \in [BookSet \X FileSet -> Entries] :
     /\ lib[<<BookA, File1>>] \in {Chapter(PdfGuide, NoMetadata), Chapter(PdfBroken, NoMetadata)}
     /\ lib[<<BookA, File2>>] \in {Chapter(PdfNotes, MetaNuts), Chapter(PdfOdd, NoMetadata)}
     /\ lib[<<BookB, File1>>] = Chapter(PdfScan, MetaCams)
     /\ lib[<<BookB, File2>>] = Absent}

-----------------------------------------------------------------------------
(* Search (searchContent, src/src/index.js).                               *)

RECURSIVE Sum(_)
Sum(ns) == IF ns = <<>> THEN 0 ELSE Head(ns) + Sum(Tail(ns))

\* array.sort((a, b) => key(b) - key(a)), keys[i] being the key of seq[i]:
\* descending by key, elements of equal key in their original order.
SortDescending(seq, keys) ==
  LET n == Len(seq)
      before(j, i) == \/ keys[j] > keys[i]
                      \/ keys[j] = keys[i] /\ j < i
      rank(i) == Cardinality({j \in 1..n : before(j, i)}) + 1
  IN  [r \in 1..n |-> seq[CHOOSE i \in 1..n : rank(i) = r]]

\* The first pass over one chapter: the score of its sidecar metadata.
MetadataScore(metadata, queryWords) ==
  IF ~metadata.exists \/ ~IsObject(metadata) THEN 0
  ELSE LET words == 1..Len(queryWords)
           keywords == IF metadata.keywords = Undefined THEN <<>> ELSE metadata.keywords[1]
           keywordHits ==
             {<<k, w>> \in (1..Len(keywords)) \X words :
                \/ Includes(ToLowerCase(keywords[k]), queryWords[w])
                \/ Includes(queryWords[w], ToLowerCase(keywords[k]))}
           titleHits ==
             IF metadata.title = Undefined \/ metadata.title = Def(<<>>) THEN {}
             ELSE {w \in words : Includes(ToLowerCase(metadata.title[1]), queryWords[w])}
           descHits ==
             IF metadata.description = Undefined \/ metadata.description = Def(<<>>) THEN {}
             ELSE {w \in words : Includes(ToLowerCase(metadata.description[1]), queryWords[w])}
       IN  50 * Cardinality(keywordHits) + 30 * Cardinality(titleHits)
             + 20 * Cardinality(descHits)

\* The filter of searchContent and getChapterSection: a word occurs in the
\* chunk's lower-cased text, or a topic of the chunk is one of the words.
ChunkMatches(chunk, words) ==
  \/ \E w \in 1..Len(words) : Includes(ToLowerCase(chunk.text), words[w])
  \/ \E t \in 1..Len(chunk.topics) :
       \E w \in 1..Len(words) : words[w] = ToLowerCase(chunk.topics[t])

\* The matches of new RegExp('\\b' + word + '\\b', 'g'): the occurrences of
\* the word that are not part of a longer run of word characters.
RECURSIVE CountWholeFrom(_, _, _)
CountWholeFrom(s, word, i) ==
  IF i + Len(word) - 1 > Len(s) THEN 0
  ELSE IF /\ MatchesAt(s, word, i)
          /\ (i = 1 \/ ~IsWordChar(s[i - 1]))
          /\ (i + Len(word) > Len(s) \/ ~IsWordChar(s[i + Len(word)]))
       THEN 1 + CountWholeFrom(s, word, i + Len(word))
       ELSE CountWholeFrom(s, word, i + 1)

\* A score that counts whole words only.
ChunkScoreWholeWords(chunk, metadataScore, queryWords) ==
  LET lowerText == ToLowerCase(chunk.text)
      topicHits == {t \in 1..Len(chunk.topics) :
                      \E w \in 1..Len(queryWords) :
                        queryWords[w] = ToLowerCase(chunk.topics[t])}
  IN  metadataScore
        + 10 * Sum([w \in 1..Len(queryWords) |-> CountWholeFrom(lowerText, queryWords[w], 1)])
        + 20 * Cardinality(topicHits)

\* A score that adds 10 for a word that occurs, however often.
ChunkScoreOncePerWord(chunk, metadataScore, queryWords) ==
  LET lowerText == ToLowerCase(chunk.text)
      topicHits == {t \in 1..Len(chunk.topics) :
                      \E w \in 1..Len(queryWords) :
                        queryWords[w] = ToLowerCase(chunk.topics[t])}
  IN  metadataScore
        + 10 * Sum([w \in 1..Len(queryWords) |->
                      IF Includes(lowerText, queryWords[w]) THEN 1 ELSE 0])
        + 20 * Cardinality(topicHits)

\* The score searchContent gives a matching chunk.
ChunkScore(chunk, metadataScore, queryWords) ==
  LET lowerText == ToLowerCase(chunk.text)
      topicHits == {t \in 1..Len(chunk.topics) :
                      \E w \in 1..Len(queryWords) :
                        queryWords[w] = ToLowerCase(chunk.topics[t])}
  IN  metadataScore
        + 10 * Sum([w \in 1..Len(queryWords) |-> CountMatches(lowerText, queryWords[w])])
        + 20 * Cardinality(topicHits)

\* String.prototype.indexOf: the 0-based index of the first occurrence, or -1.
IndexOf(s, word) ==
  IF Includes(s, word)
  THEN (CHOOSE i \in 1..(Len(s) + 1) :
          /\ MatchesAt(s, word, i)
          /\ \A j \in 1..(i - 1) : ~MatchesAt(s, word, j)) - 1
  ELSE -1

\* The forEach of getContextSnippet from the word at the head on; best is
\* bestMatch.index, which starts at 0.
RECURSIVE BestMatchIndex(_, _, _)
BestMatchIndex(text, queryWords, best) ==
  IF queryWords = <<>> THEN best
  ELSE LET index == IndexOf(ToLowerCase(text), Head(queryWords))
       IN  BestMatchIndex(text, Tail(queryWords),
                          IF index # -1 /\ (best = 0 \/ index < best)
                          THEN index ELSE best)

Ellipsis == <<".", ".", ".">>

\* getContextSnippet for an even contextLength.
getContextSnippet(text, queryWords, contextLength) ==
  LET best  == BestMatchIndex(text, queryWords, 0)
      start == Max(0, best - contextLength \div 2)
      end   == Min(Len(text), best + contextLength \div 2)
  IN  IF best = 0
      THEN Substring(text, 0, contextLength)
             \o (IF Len(text) > contextLength THEN Ellipsis ELSE <<>>)
      ELSE (IF start > 0 THEN Ellipsis ELSE <<>>)
             \o Substring(text, start, end)
             \o (IF end < Len(text) THEN Ellipsis ELSE <<>>)

\* The scores of a sequence of matches.
Scores(matches) == [k \in 1..Len(matches) |-> matches[k].score]

\* The body of the loop over chaptersToSearch for one chapter: the results
\* it pushes (none or one).
ChapterResults(files, bookDir, chapter, queryWords) ==
  LET cached == CachedContentIn(files, chapter.file)
      metadataScore == chapter.metadataScore
      matching(chunk) == ChunkMatches(chunk, queryWords)
      chunkMatches == SelectSeq(cached.textChunks, matching)
      scored == [k \in 1..Len(chunkMatches) |->
                   [id    |-> Def(chunkMatches[k].id),
                    text  |-> chunkMatches[k].text,
                    score |-> ChunkScore(chunkMatches[k], metadataScore, queryWords)]]
      placeholder == [id |-> Undefined, text |-> <<>>, score |-> metadataScore]
      scoredMatches == IF scored = <<>> /\ metadataScore >= 50
                       THEN <<placeholder>>
                       ELSE SortDescending(scored, Scores(scored))
  IN  IF cached = Null \/ "textChunks" \notin DOMAIN cached THEN <<>>
      ELSE IF ~(Len(chunkMatches) > 0 \/ metadataScore > 0) THEN <<>>
      ELSE IF scoredMatches = <<>> THEN <<>>
      ELSE << [book          |-> bookDir,
               chapter       |-> chapter.file,
               metadataScore |-> metadataScore,
               matches       |-> Slice(scoredMatches, 2)] >>

\* The chapters of a book directory searchContent loads the records of, in
\* the order it does.
ChaptersToSearch(lib, bookDir, queryWords) ==
  LET pdfFiles == PdfFiles(lib, bookDir)
      scoredChapters ==
        [k \in 1..Len(pdfFiles) |->
           [file          |-> pdfFiles[k],
            metadataScore |-> MetadataScore(lib[<<bookDir, pdfFiles[k]>>].metadata,
                                            queryWords)]]
      chaptersWithRelevance ==
        SortDescending(scoredChapters,
                       [k \in 1..Len(scoredChapters) |-> scoredChapters[k].metadataScore])
      hasMetadataMatches ==
        \E k \in 1..Len(chaptersWithRelevance) : chaptersWithRelevance[k].metadataScore > 0
      scoredAboveZero(chapter) == chapter.metadataScore > 0
  IN  IF hasMetadataMatches
      THEN SelectSeq(chaptersWithRelevance, scoredAboveZero)
      ELSE chaptersWithRelevance

\* The results of the chapters searched in one book directory.
ResultsOf(files, bookDir, chaptersToSearch, queryWords) ==
  Concat([k \in 1..Len(chaptersToSearch) |->
            ChapterResults(files, bookDir, chaptersToSearch[k], queryWords)])

\* The results one book directory contributes, in the order they are pushed.
BookResults(lib, files, bookDir, queryWords) ==
  ResultsOf(files, bookDir, ChaptersToSearch(lib, bookDir, queryWords), queryWords)

\* cached.textChunks.filter throws for one of the chapters searched: its
\* record has no textChunks.
SearchThrowsIn(files, chaptersToSearch) ==
  \E k \in 1..Len(chaptersToSearch) :
    /\ CachedContentIn(files, chaptersToSearch[k].file) # Null
    /\ "textChunks" \notin DOMAIN CachedContentIn(files, chaptersToSearch[k].file)

SearchThrows(lib, files, queryWords) ==
  \E b \in 1..Len(Books) :
    SearchThrowsIn(files, ChaptersToSearch(lib, Books[b], queryWords))

\* Math.max(...result.matches.map(m => m.score))
MaxScore(result) ==
  CHOOSE m \in {result.matches[k].score : k \in 1..Len(result.matches)} :
    \A k \in 1..Len(result.matches) : result.matches[k].score <= m

\* The results as pushed, unsorted.
PushedResults(lib, files, query) ==
  LET queryWords == QueryWords(query)
  IN  Concat([b \in 1..Len(Books) |-> BookResults(lib, files, Books[b], queryWords)])

\* results.sort((a, b) => maxScoreB - maxScoreA)
ByMaxScore(results) ==
  SortDescending(results, [k \in 1..Len(results) |-> MaxScore(results[k])])

\* The results array of searchContent after its final sort.
RankedResults(lib, files, query) == ByMaxScore(PushedResults(lib, files, query))

-----------------------------------------------------------------------------
(* The request handlers of the book server (src/src/index.js).  Each       *)
(* operator gives the result a handler returns and the cache directory it  *)
(* leaves; a result is kept as the fields its text is built from.          *)

\* args.max_results || 3
DEFAULT_MAX_RESULTS == 3
\* args.length || 1000
DEFAULT_LENGTH == 1000
\* the maximum the tool schema declares for max_results
MAX_RESULTS_LIMIT == 5

\* The extraction status listBooksAndChapters reports for a cache lookup.
ExtractionStatus(cachedContent) ==
  IF cachedContent = Null THEN [extracted |-> FALSE]
  ELSE [extracted   |-> TRUE,
        extractedAt |-> Get(cachedContent, "extractedAt"),
        totalPages  |-> Get(cachedContent, "totalPages"),
        chunkCount  |-> ChunkCount(cachedContent)]

\* metadata.title throws for one of the chapters listed: its sidecar file
\* parses to null.
ListingThrows(lib) ==
  \E b \in 1..Len(Books) :
    \E k \in 1..Len(PdfFiles(lib, Books[b])) :
      LET metadata == lib[<<Books[b], PdfFiles(lib, Books[b])[k]>>].metadata
      IN  metadata.exists /\ "null" \in DOMAIN metadata

listBooksAndChapters(lib, files) ==
  LET chaptersOf(bookDir) ==
        LET pdfFiles == PdfFiles(lib, bookDir)
        IN  [k \in 1..Len(pdfFiles) |->
               [filename   |-> pdfFiles[k],
                extraction |-> ExtractionStatus(CachedContentIn(files, pdfFiles[k]))]]
  IN  IF ListingThrows(lib)
      THEN [isError |-> TRUE, books |-> <<>>]
      ELSE [isError |-> FALSE,
            books   |-> [b \in 1..Len(Books) |->
                           [bookName |-> Books[b], chapters |-> chaptersOf(Books[b])]]]

\* The chapters returned by the truncation results.slice(0, maxResults + 1).
ReturnedOneMore(results, maxResults) == Slice(results, maxResults + 1)

\* results.slice(0, maxResults)
Returned(results, maxResults) == Slice(results, maxResults)

\* The response for the sorted results.
SearchResponse(results, maxResults) ==
  [isError |-> FALSE,
   found   |-> Len(results),
   sources |-> Returned(results, maxResults)]

searchContent(lib, files, query, maxResults) ==
  IF SearchThrows(lib, files, QueryWords(query))
  THEN [isError |-> TRUE, found |-> 0, sources |-> <<>>]
  ELSE SearchResponse(RankedResults(lib, files, query), maxResults)

\* contextSizes[contextLevel] || 2
MaxChunks(contextLevel) ==
  CASE contextLevel = "brief" -> 1
    [] contextLevel = "detailed" -> 2
    [] contextLevel = "comprehensive" -> 3
    [] OTHER -> 2

\* The evidence getChapterSection quotes, were it to quote every relevant chunk.
EvidenceAll(relevantChunks, maxChunks) == relevantChunks

\* relevantChunks.slice(0, maxChunks)
Evidence(relevantChunks, maxChunks) == Slice(relevantChunks, maxChunks)

\* A handler that takes a chapter without a record for a chapter without
\* chunks.
getChapterSectionUnchecked(files, bookName, chapterName, sectionTopic, contextLevel) ==
  LET cached == CachedContentIn(files, chapterName)
      textChunks == IF cached = Null THEN <<>> ELSE cached.textChunks
      topicWords == QueryWords(sectionTopic)
      relevant(chunk) == ChunkMatches(chunk, topicWords)
      relevantChunks == SelectSeq(textChunks, relevant)
      quoted == Slice(relevantChunks, 2)
  IN  IF Len(relevantChunks) = 0
      THEN [isError |-> FALSE, kind |-> "noContent", evidence |-> <<>>]
      ELSE [isError  |-> FALSE,
            kind     |-> "section",
            evidence |-> [k \in 1..Len(quoted) |->
                            [id |-> quoted[k].id, text |-> quoted[k].text]]]

getChapterSection(files, bookName, chapterName, sectionTopic, contextLevel) ==
  LET cached == CachedContentIn(files, chapterName)
      topicWords == QueryWords(sectionTopic)
      relevant(chunk) == ChunkMatches(chunk, topicWords)
      relevantChunks == SelectSeq(cached.textChunks, relevant)
      quoted == Evidence(relevantChunks, MaxChunks(contextLevel))
  IN  IF cached = Null
      THEN [isError |-> TRUE, kind |-> "notExtracted", evidence |-> <<>>]
      ELSE IF "textChunks" \notin DOMAIN cached
      THEN [isError |-> TRUE, kind |-> "error", evidence |-> <<>>]
      ELSE IF Len(relevantChunks) = 0
      THEN [isError |-> FALSE, kind |-> "noContent", evidence |-> <<>>]
      ELSE [isError  |-> FALSE,
            kind     |-> "section",
            evidence |-> [k \in 1..Len(quoted) |->
                            [id |-> quoted[k].id, text |-> quoted[k].text]]]

\* What an extracting handler leaves behind: the cache directory and, when a
\* record was written, the record and the time it took from the clock.
NothingWritten(files) == [files |-> files, record |-> Null]
Written(extraction)   == [files |-> extraction.files, record |-> extraction.content]

\* A handler that re-extracts whether or not a record is cached.
ReusesCacheNever(forceReextract, cached) == FALSE

\* if (!forceReextract) { const cached = ...; if (cached) return ... }
ReusesCache(forceReextract, cached) == ~forceReextract /\ cached # Null

\* The "already extracted" summary of a cached record.
AlreadyExtracted(cached, files) ==
  [result |-> [isError     |-> FALSE,
               kind        |-> "alreadyExtracted",
               extractedAt |-> Get(cached, "extractedAt"),
               totalPages  |-> Get(cached, "totalPages"),
               chunkCount  |-> ChunkCount(cached)],
   effect |-> NothingWritten(files)]

\* The result for an extraction that has run.
Completed(extraction, files) ==
  IF extraction.threw
  THEN [result |-> [isError |-> TRUE, kind |-> "error"],
        effect |-> NothingWritten(files)]
  ELSE [result |-> [isError    |-> FALSE,
                    kind       |-> "completed",
                    totalPages |-> extraction.content.totalPages,
                    chunkCount |-> Len(extraction.content.textChunks)],
        effect |-> Written(extraction)]

\* extractChapterContent once the PDF is known to exist.
ExtractOrReuse(pdf, cached, files, now, chapterName, forceReextract) ==
  IF ReusesCache(forceReextract, cached)
  THEN AlreadyExtracted(cached, files)
  ELSE Completed(comprehensiveExtractPDF(pdf, chapterName, now, files), files)

\* A handler that does not await fs.access before it looks at the cache.
extractChapterContentNoAccess(lib, files, now, bookName, chapterName, forceReextract) ==
  ExtractOrReuse(lib[<<bookName, chapterName>>].pdf,
                 CachedContentIn(files, chapterName),
                 files, now, chapterName, forceReextract)

extractChapterContent(lib, files, now, bookName, chapterName, forceReextract) ==
  IF ~lib[<<bookName, chapterName>>].pdf.exists
  THEN [result |-> [isError |-> TRUE, kind |-> "error"],
        effect |-> NothingWritten(files)]
  ELSE ExtractOrReuse(lib[<<bookName, chapterName>>].pdf,
                      CachedContentIn(files, chapterName),
                      files, now, chapterName, forceReextract)

\* The page of the reconstructed text a request asks for.
TextPage(cleanedText, startChars, endChars, effect) ==
  [result |-> [isError    |-> FALSE,
               kind       |-> "text",
               startChars |-> startChars,
               endChars   |-> endChars,
               textLength |-> Len(cleanedText),
               text       |-> Substring(cleanedText, startChars, endChars),
               continues  |-> endChars < Len(cleanedText)],
   effect |-> effect]

\* Math.min(startChars + length, textLength) and the page up to there.
TextFrom(cleanedText, startChars, length, effect) ==
  TextPage(cleanedText, startChars, Min(startChars + length, Len(cleanedText)), effect)

\* getChapterText from the check of cached.text on.
TextOf(cached, startChars, length, effect) ==
  IF "text" \notin DOMAIN cached \/ cached.text = <<>>
  THEN [result |-> [isError |-> TRUE, kind |-> "noText"], effect |-> effect]
  ELSE TextFrom(reconstructText(cached.text), startChars, length, effect)

\* getChapterText after the extraction it has run.
TextOfExtraction(extraction, startChars, length, files) ==
  IF extraction.threw
  THEN [result |-> [isError |-> TRUE, kind |-> "extractError"],
        effect |-> NothingWritten(files)]
  ELSE TextOf(extraction.content, startChars, length, Written(extraction))

\* getChapterText with the record getCachedContent has loaded.
TextOfChapter(pdf, loaded, files, now, chapterName, startChars, length, forceReextract) ==
  IF loaded = Null \/ forceReextract
  THEN TextOfExtraction(comprehensiveExtractPDF(pdf, chapterName, now, files),
                        startChars, length, files)
  ELSE TextOf(loaded, startChars, length, NothingWritten(files))

getChapterText(lib, files, now, bookName, chapterName, startChars, length, forceReextract) ==
  TextOfChapter(lib[<<bookName, chapterName>>].pdf, CachedContentIn(files, chapterName),
                files, now, chapterName, startChars, length, forceReextract)

-----------------------------------------------------------------------------
(* The book server as a state machine: one request at a time.              *)

\* The chapters requests name, and the arguments they are made with.
Chapters == {<<BookA, File1>>, <<BookA, File2>>, <<BookB, File1>>}

QueryCam     == <<"c","a","m">>
QueryNutsCam == <<"N","u","t","s"," ","c","a","m">>
QueryNuts    == <<"N","u","t","s">>
SearchRequests ==
  {<<QueryCam, Undefined>>, <<QueryNutsCam, Undefined>>, <<QueryNuts, Undefined>>}
    \cup {<<QueryCam, Def(n)>> : n \in 1..MAX_RESULTS_LIMIT}

SectionTopics == { <<"C","a","m"," ","n","u","t">> }
ContextLevels == { Undefined, Def("brief"), Def("comprehensive") }

\* start_chars, length, force_reextract
TextRequests ==
  {<<Undefined, Undefined, FALSE>>, <<Def(1), Def(2), FALSE>>, <<Undefined, Undefined, TRUE>>}

\* The PDFs that may disappear from the Books directory.
Removable == {<<BookA, File1>>}

BookServer  == "book"
ImageServer == "image"

Init ==
  /\ server = BookServer
  /\ library \in Libraries
  /\ cache = <<>>
  /\ clock = 0
  /\ written = Null
  /\ writing = Null
  /\ inflight = <<>>
  /\ console = OriginalConsole
  /\ extracted = {}
  /\ last = [op |-> "none"]
  /\ fnIn = [fn |-> "none"]
  /\ fnOut = [done |-> FALSE]

\* The effect of a handler on the cache directory; an extraction that wrote
\* a record took the time from the clock.
Leaves(effect, chapter) ==
  /\ cache' = effect.files
  /\ IF effect.record = Null
     THEN UNCHANGED <<clock, written, extracted>>
     ELSE /\ clock' = clock + 1
          /\ written' = effect.record
          /\ extracted' = extracted \cup {chapter}

\* Extractions are counted up to MaxClock.
WithinClock(effect) == effect.record # Null => clock < MaxClock

\* A handler that may extract has served a request for a chapter: its
\* effect on the cache and the result it returned.
Settles(outcome, chapter, request) ==
  /\ WithinClock(outcome.effect)
  /\ Leaves(outcome.effect, chapter)
  /\ last' = [request EXCEPT !.result = outcome.result]

ListBooksAndChapters ==
  /\ server = BookServer
  /\ last' = [op |-> "listBooksAndChapters",
              result |-> listBooksAndChapters(library, cache)]
  /\ UNCHANGED <<library, cache, clock, written, extracted, fnIn, fnOut, server, writing, inflight, console>>

SearchContent ==
  \E request \in SearchRequests :
    /\ server = BookServer
    /\ last' = [op          |-> "searchContent",
                query       |-> request[1],
                max_results |-> request[2],
                result      |-> searchContent(library, cache, request[1],
                                              JsOr(request[2], Def(DEFAULT_MAX_RESULTS))[1])]
    /\ UNCHANGED <<library, cache, clock, written, extracted, fnIn, fnOut, server, writing, inflight, console>>

GetChapterSection ==
  \E chapter \in Chapters, section_topic \in SectionTopics, context_level \in ContextLevels :
    /\ server = BookServer
    /\ last' = [op            |-> "getChapterSection",
                bookName      |-> chapter[1],
                chapterName   |-> chapter[2],
                section_topic |-> section_topic,
                context_level |-> context_level,
                result        |-> getChapterSection(
                                    cache, chapter[1], chapter[2], section_topic,
                                    IF context_level = Undefined THEN "detailed"
                                    ELSE context_level[1])]
    /\ UNCHANGED <<library, cache, clock, written, extracted, fnIn, fnOut, server, writing, inflight, console>>

ExtractChapterContent ==
  \E chapter \in Chapters, force_reextract \in BOOLEAN :
    /\ server = BookServer
    /\ Settles(extractChapterContent(library, cache, clock, chapter[1], chapter[2],
                                     force_reextract),
               chapter,
               [op              |-> "extractChapterContent",
                bookName        |-> chapter[1],
                chapterName     |-> chapter[2],
                force_reextract |-> force_reextract,
                result          |-> Null])
    /\ UNCHANGED <<library, fnIn, fnOut, server, writing, inflight, console>>

GetChapterText ==
  \E chapter \in Chapters, request \in TextRequests :
    /\ server = BookServer
    /\ Settles(getChapterText(library, cache, clock, chapter[1], chapter[2],
                              JsOr(request[1], Def(0))[1],
                              JsOr(request[2], Def(DEFAULT_LENGTH))[1],
                              request[3]),
               chapter,
               [op              |-> "getChapterText",
                bookName        |-> chapter[1],
                chapterName     |-> chapter[2],
                start_chars     |-> request[1],
                length          |-> request[2],
                force_reextract |-> request[3],
                result          |-> Null])
    /\ UNCHANGED <<library, fnIn, fnOut, server, writing, inflight, console>>

\* The environment: a PDF (and its sidecar file) is removed from the Books
\* directory between two requests.
RemovePdf ==
  \E chapter \in Removable :
    /\ server = BookServer
    /\ library[chapter].pdf.exists
    /\ library' = [library EXCEPT ![chapter] = Absent]
    /\ last' = [op |-> "none"]
    /\ UNCHANGED <<cache, clock, written, extracted, fnIn, fnOut, server, writing, inflight, console>>

Next ==
  \/ ListBooksAndChapters
  \/ SearchContent
  \/ GetChapterSection
  \/ ExtractChapterContent
  \/ GetChapterText
  \/ RemovePdf

Spec == Init /\ [][Next]_vars

-----------------------------------------------------------------------------
(* The book server over damaged files: cache files that are empty or cut   *)
(* short, cache files that hold an object that is no record, and sidecar   *)
(* files that are not JSON or hold null.                                   *)

\* { "chapterName": "<name>" }: a JSON object without text or textChunks.
PartialRecord(chapterName) == << <<"chapterName", chapterName>> >>

\* The sidecar of A/1.pdf is not JSON; that of B/1.pdf holds metadataB1.
FaultLibrary(metadataB1) ==
  [chapter \in BookSet \X FileSet |->
     CASE chapter = <<BookA, File1>> -> Chapter(PdfGuide, UnparseableMetadata)
       [] chapter = <<BookA, File2>> -> Chapter(PdfNotes, MetaNuts)
       [] chapter = <<BookB, File1>> -> Chapter(PdfScan, metadataB1)
       [] OTHER -> Absent]

FaultLibraries == {FaultLibrary(MetaCams), FaultLibrary(NullMetadata)}

\* The chapters whose cache file may be damaged.
Damageable == {File2}

FaultInit ==
  /\ server = BookServer
  /\ library \in FaultLibraries
  /\ cache = <<>>
  /\ clock = 0
  /\ written = Null
  /\ writing = Null
  /\ inflight = <<>>
  /\ console = OriginalConsole
  /\ extracted = {}
  /\ last = [op |-> "none"]
  /\ fnIn = [fn |-> "none"]
  /\ fnOut = [done |-> FALSE]

\* The environment: between two requests a cache file is left empty or cut
\* short, or is replaced by an object that is no record.
DamageCache ==
  \E chapterName \in Damageable :
    \E content \in {Unparseable, PartialRecord(chapterName)} :
      /\ server = BookServer
      /\ cache' = WriteFile(cache, CacheFile(chapterName), content)
      /\ written' = Null
      /\ last' = [op |-> "none"]
      /\ UNCHANGED <<library, clock, extracted, fnIn, fnOut, server, writing, inflight, console>>

\* The requests of the book server and the damage; no PDF is removed.
FaultNext ==
  \/ ListBooksAndChapters
  \/ SearchContent
  \/ GetChapterSection
  \/ ExtractChapterContent
  \/ GetChapterText
  \/ DamageCache

FaultSpec == FaultInit /\ [][FaultNext]_vars

-----------------------------------------------------------------------------
(* The book server with requests in flight together: the handlers are     *)
(* async functions and a request is dispatched while another awaits, so    *)
(* a handler runs between the steps of fs.writeFile of another.            *)

\* fs.writeFile has opened the cache file with flag 'w': the file is empty
\* until the data is written.
Truncated(files, cacheFile) == WriteFile(files, cacheFile, Unparseable)

\* extractChapterContent runs up to the await of fs.writeFile; a request
\* that writes nothing is answered at once.
BeginExtractChapterContent ==
  \E chapter \in Chapters, force_reextract \in BOOLEAN :
    LET outcome == extractChapterContent(library, cache, clock, chapter[1], chapter[2],
                                         force_reextract)
        request == [op              |-> "extractChapterContent",
                    bookName        |-> chapter[1],
                    chapterName     |-> chapter[2],
                    force_reextract |-> force_reextract,
                    result          |-> Null]
    IN  /\ server = BookServer
        /\ writing = Null
        /\ WithinClock(outcome.effect)
        /\ IF outcome.effect.record = Null
           THEN /\ last' = [request EXCEPT !.result = outcome.result]
                /\ UNCHANGED <<cache, writing>>
           ELSE /\ cache' = Truncated(cache, CacheFile(chapter[2]))
                /\ writing' = [chapter |-> chapter,
                               before  |-> cache,
                               effect  |-> outcome.effect,
                               answer  |-> [request EXCEPT !.result = outcome.result]]
                /\ UNCHANGED last
        /\ UNCHANGED <<library, clock, written, extracted, fnIn, fnOut, server, inflight, console>>

\* fs.writeFile ends: the file holds the record, and the handler returns.
EndWriteFile ==
  /\ server = BookServer
  /\ writing # Null
  /\ Leaves(writing.effect, writing.chapter)
  /\ last' = writing.answer
  /\ writing' = Null
  /\ UNCHANGED <<library, fnIn, fnOut, server, inflight, console>>

ConcurrentNext ==
  \/ ListBooksAndChapters
  \/ SearchContent
  \/ GetChapterSection
  \/ BeginExtractChapterContent
  \/ EndWriteFile

ConcurrentSpec == Init /\ [][ConcurrentNext]_vars

-----------------------------------------------------------------------------
(* The book server with extracting requests in flight together: each       *)
(* request of extract_chapter_content is an async call of its own, and the *)
(* calls take turns at their awaits.                                       *)

MaxInFlight == 2

\* The console while extractTextWithPDF2JSON parses: console.error filters
\* what it passes to the function it replaced, console.warn drops all.
Silenced(current) == [error |-> current.error + 1, warn |-> "silent"]

\* A request that is extracting: comprehensiveExtractPDF has begun and has
\* neither thrown nor returned.
Extracting(request) == request.pc \in {"reading", "parsing", "recording", "writing"}

\* A request arrives: fs.access and the look at the cache, up to the call of
\* comprehensiveExtractPDF.
ArriveExtraction ==
  \E chapter \in Chapters, force_reextract \in BOOLEAN :
    /\ server = BookServer
    /\ Len(inflight) < MaxInFlight
    /\ inflight' = Append(inflight,
         [chapter         |-> chapter,
          force_reextract |-> force_reextract,
          saved           |-> OriginalConsole,
          record          |-> Null,
          pc |-> IF ~library[chapter].pdf.exists THEN "failed"
                 ELSE IF ReusesCache(force_reextract, CachedContentIn(cache, chapter[2]))
                 THEN "reused" ELSE "reading"])
    /\ UNCHANGED <<library, cache, clock, written, extracted, last, fnIn, fnOut, server,
                   writing, console>>

\* extractTextWithPdfReader resolves.  With too little text the request
\* enters extractTextWithPDF2JSON, which saves the console functions it
\* finds and replaces them; parseBuffer either throws at once, and the
\* catch restores the functions saved, or parses on.
ReaderResolves ==
  \E i \in 1..Len(inflight) :
    LET pdf == library[inflight[i].chapter].pdf
    IN  /\ inflight[i].pc = "reading"
        /\ IF ~TooLittle(extractTextWithPdfReader(pdf.reader))
              \/ pdf.pdf2json.event = "parseThrows"
           THEN /\ inflight' = [inflight EXCEPT ![i].pc = "recording"]
                /\ UNCHANGED console
           ELSE /\ inflight' = [inflight EXCEPT ![i].pc = "parsing", ![i].saved = console]
                /\ console' = Silenced(console)
        /\ UNCHANGED <<library, cache, clock, written, extracted, last, fnIn, fnOut, server,
                       writing>>

\* pdfParser_dataReady or pdfParser_dataError: the handler restores the
\* functions the request saved.
ParserEmits ==
  \E i \in 1..Len(inflight) :
    /\ inflight[i].pc = "parsing"
    /\ console' = inflight[i].saved
    /\ inflight' = [inflight EXCEPT ![i].pc = "recording"]
    /\ UNCHANGED <<library, cache, clock, written, extracted, last, fnIn, fnOut, server,
                   writing>>

\* The record is built and fs.writeFile opens the cache file, or the
\* extraction throws.
RecordBuilt ==
  \E i \in 1..Len(inflight) :
    LET chapter    == inflight[i].chapter
        extraction == comprehensiveExtractPDF(library[chapter].pdf, chapter[2], clock, cache)
    IN  /\ inflight[i].pc = "recording"
        /\ clock < MaxClock
        /\ IF extraction.threw
           THEN /\ inflight' = [inflight EXCEPT ![i].pc = "failed"]
                /\ UNCHANGED <<cache, clock>>
           ELSE /\ inflight' = [inflight EXCEPT ![i].pc = "writing",
                                                ![i].record = extraction.content]
                /\ cache' = Truncated(cache, CacheFile(chapter[2]))
                /\ clock' = clock + 1
        /\ UNCHANGED <<library, written, extracted, last, fnIn, fnOut, server, writing,
                       console>>

\* fs.writeFile ends and the request is answered.
RecordWritten ==
  \E i \in 1..Len(inflight) :
    /\ inflight[i].pc = "writing"
    /\ cache' = WriteFile(cache, CacheFile(inflight[i].chapter[2]),
                          JSONStringify(inflight[i].record))
    /\ written' = inflight[i].record
    /\ extracted' = extracted \cup {inflight[i].chapter}
    /\ inflight' = [inflight EXCEPT ![i].pc = "done"]
    /\ UNCHANGED <<library, clock, last, fnIn, fnOut, server, writing, console>>

OverlapNext ==
  \/ ArriveExtraction
  \/ ReaderResolves
  \/ ParserEmits
  \/ RecordBuilt
  \/ RecordWritten

OverlapSpec == Init /\ [][OverlapNext]_vars

-----------------------------------------------------------------------------
(* The image-capable variant of the server (src/unnamed/part_000): one     *)
(* flat directory of chapters, text from PDF2JSON only, a page image per   *)
(* page.  Its extractTopics, createSearchIndex and getCachedContent are    *)
(* those of the book server.                                               *)

\* fullText.length / 3000: the characters a page is estimated to hold
ESTIMATED_PAGE_CHARS == 3000
\* EXTRACTION_CONFIG.MAX_IMAGES_PER_CHUNK
MAX_IMAGES_PER_CHUNK == 3

\* Math.ceil(a / b) for a >= 0 and b > 0.  The program computes the page of
\* a position as Math.ceil((i / L) * totalPages) in floating point, which is
\* CeilDiv(i * totalPages, L) for every L < 40 and totalPages < 12.
CeilDiv(a, b) == (a + b - 1) \div b

\* x || y on numbers
OrElse(x, y) == IF x = 0 THEN y ELSE x

\* The text the runs of one page add: decodeURIComponent(T) + ' ' for every
\* run with a text; a malformed escape throws.
RECURSIVE Img_PageText(_)
Img_PageText(page) ==
  IF page = <<>> THEN [ok |-> TRUE, text |-> <<>>]
  ELSE LET decoded == decodeURIComponent(Head(page))
           rest    == Img_PageText(Tail(page))
       IN  IF Head(page) = <<>> THEN rest
           ELSE [ok   |-> decoded.ok /\ rest.ok,
                 text |-> decoded.text \o <<" ">> \o rest.text]

\* extractTextWithPDF2JSON of the variant: the text it resolves with, or
\* that the promise is rejected (parseBuffer throws outside any try).
Img_extractTextWithPDF2JSON(pdf2json) ==
  IF pdf2json.event = "parseThrows" THEN [threw |-> TRUE, text |-> <<>>]
  ELSE IF pdf2json.event = "dataError" \/ ~pdf2json.iterable
  THEN [threw |-> FALSE, text |-> <<>>]
  ELSE LET Pages == pdf2json.Pages
           texts == [n \in 1..Len(Pages) |-> Img_PageText(Pages[n])]
           fullText == Concat([n \in 1..Len(Pages) |-> texts[n].text \o <<"\n">>])
       IN  IF \E n \in 1..Len(Pages) : ~texts[n].ok
           THEN [threw |-> FALSE, text |-> <<>>]
           ELSE [threw |-> FALSE, text |-> Trim(fullText)]

\* The loop of createTextImageChunks from chunk number k (position k * chunkSize).
RECURSIVE TextImageChunkLoop(_, _, _, _, _)
TextImageChunkLoop(fullText, pageImages, totalPages, chunkSize, k) ==
  LET i         == k * chunkSize
      L         == Len(fullText)
      startPage == OrElse(CeilDiv(i * totalPages, L), 1)
      endPage   == OrElse(CeilDiv((i + chunkSize) * totalPages, L), totalPages)
      chunkText == Substring(fullText, i, i + chunkSize)
      onPages(img) == img.page >= startPage /\ img.page <= endPage
      chunk     == [id        |-> k,
                    text      |-> chunkText,
                    startChar |-> i,
                    endChar   |-> Min(i + chunkSize, L),
                    startPage |-> startPage,
                    endPage   |-> endPage,
                    images    |-> Slice(SelectSeq(pageImages, onPages), MAX_IMAGES_PER_CHUNK),
                    topics    |-> extractTopics(chunkText)]
  IN  IF i >= L THEN <<>>
      ELSE <<chunk>> \o TextImageChunkLoop(fullText, pageImages, totalPages, chunkSize, k + 1)

TextImageChunks(fullText, pageImages, totalPages, chunkSize) ==
  TextImageChunkLoop(fullText, pageImages, totalPages, chunkSize, 0)

createTextImageChunks(fullText, pageImages, totalPages) ==
  TextImageChunks(fullText, pageImages, totalPages, CHUNK_SIZE)

Img_ContentKeys ==
  <<"chapterName", "extractedAt", "text", "totalPages", "pageImages", "textChunks",
    "searchIndex">>
Img_ChunkKeys ==
  <<"id", "text", "startChar", "endChar", "startPage", "endPage", "images", "topics">>

\* JSON.stringify(extractedContent, null, 2) on a record of the variant.
Img_JSONStringify(extractedContent) ==
  LET chunks == extractedContent.textChunks
      json   == [extractedContent EXCEPT
                   !.textChunks = [k \in 1..Len(chunks) |->
                                     Properties(chunks[k], Img_ChunkKeys, {})]]
  IN  Properties(json, Img_ContentKeys, {})

\* comprehensiveExtractPDF of the variant.  pdf.images is what pdf2pic and
\* sharp deliver: the conversion fails, or the pages that became images.
Img_comprehensiveExtractPDF(pdf, chapterName, now, files) ==
  LET extraction == Img_extractTextWithPDF2JSON(pdf.pdf2json)
      fullText   == extraction.text
      pageImages == IF pdf.images.failed THEN <<>>
                    ELSE [k \in 1..Len(pdf.images.pages) |-> [page |-> pdf.images.pages[k]]]
      totalPages == IF pdf.images.failed
                    THEN Max(1, CeilDiv(Len(fullText), ESTIMATED_PAGE_CHARS))
                    ELSE Len(pageImages)
      textChunks == createTextImageChunks(fullText, pageImages, totalPages)
      extractedContent ==
        [chapterName |-> chapterName,
         extractedAt |-> now,
         text        |-> fullText,
         totalPages  |-> totalPages,
         pageImages  |-> pageImages,
         textChunks  |-> textChunks,
         searchIndex |-> createSearchIndex(fullText, textChunks)]
  IN  IF ~pdf.exists \/ extraction.threw \/ SearchIndexThrows(textChunks)
      THEN [threw |-> TRUE, files |-> files]
      ELSE [threw   |-> FALSE,
            content |-> extractedContent,
            files   |-> WriteFile(files, CacheFile(chapterName),
                                  Img_JSONStringify(extractedContent))]

\* The score searchContent of the variant gives a matching chunk.
Img_ChunkScore(chunk, queryWords) == ChunkScore(chunk, 0, queryWords)

\* The body of the loop over pdfFiles for one file: the results it pushes.
Img_FileResults(files, file, queryWords) ==
  LET cached == CachedContentIn(files, file)
      matching(chunk) == ChunkMatches(chunk, queryWords)
      chunkMatches == SelectSeq(cached.textChunks, matching)
      scored == [k \in 1..Len(chunkMatches) |->
                   [id        |-> Def(chunkMatches[k].id),
                    text      |-> chunkMatches[k].text,
                    startPage |-> chunkMatches[k].startPage,
                    endPage   |-> chunkMatches[k].endPage,
                    score     |-> Img_ChunkScore(chunkMatches[k], queryWords)]]
  IN  IF cached = Null THEN <<>>
      ELSE IF Len(chunkMatches) = 0 THEN <<>>
      ELSE << [chapter |-> file,
               matches |-> Slice(SortDescending(scored, Scores(scored)), 2)] >>

\* The PDFs of the chapters directory, in readdir order.
Img_PdfFiles(lib) ==
  LET present(file) == lib[file].exists
  IN  SelectSeq(Files, present)

\* The results array of the variant's searchContent: pushed file by file and
\* not sorted afterwards.
Img_Results(lib, files, query) ==
  LET queryWords == QueryWords(query)
      pdfFiles   == Img_PdfFiles(lib)
  IN  Concat([k \in 1..Len(pdfFiles) |-> Img_FileResults(files, pdfFiles[k], queryWords)])

Img_SearchResponse(results, maxResults) ==
  [isError |-> FALSE,
   found   |-> Len(results),
   sources |-> Slice(results, maxResults)]

Img_searchContent(lib, files, query, maxResults) ==
  Img_SearchResponse(Img_Results(lib, files, query), maxResults)

Img_listChapters(lib, files) ==
  LET pdfFiles == Img_PdfFiles(lib)
  IN  [isError  |-> FALSE,
       chapters |-> [k \in 1..Len(pdfFiles) |->
                       [filename   |-> pdfFiles[k],
                        extraction |-> ExtractionStatus(CachedContentIn(files, pdfFiles[k]))]]]

Img_getChapterSection(files, chapterName, sectionTopic, contextLevel) ==
  LET cached == CachedContentIn(files, chapterName)
      topicWords == QueryWords(sectionTopic)
      relevant(chunk) == ChunkMatches(chunk, topicWords)
      relevantChunks == SelectSeq(cached.textChunks, relevant)
      quoted == Slice(relevantChunks, MaxChunks(contextLevel))
  IN  IF cached = Null
      THEN [isError |-> TRUE, kind |-> "notExtracted", evidence |-> <<>>]
      ELSE IF Len(relevantChunks) = 0
      THEN [isError |-> FALSE, kind |-> "noContent", evidence |-> <<>>]
      ELSE [isError  |-> FALSE,
            kind     |-> "section",
            evidence |-> [k \in 1..Len(quoted) |->
                            [id |-> quoted[k].id, text |-> quoted[k].text]]]

MAX_VISUAL_IMAGES == 5

\* getVisualContent of the variant: the images of the requested pages or,
\* with a topic context, of the pages of the chunks that match it.
Img_getVisualContent(files, chapterName, pageNumbers, topicContext) ==
  LET cached == CachedContentIn(files, chapterName)
      requested(img) == \E k \in 1..Len(pageNumbers[1]) : pageNumbers[1][k] = img.page
      ofPages == IF pageNumbers # Undefined /\ Len(pageNumbers[1]) > 0
                 THEN SelectSeq(cached.pageImages, requested)
                 ELSE cached.pageImages
      contextWords == QueryWords(topicContext[1])
      relevant(chunk) == ChunkMatches(chunk, contextWords)
      relevantChunks == SelectSeq(cached.textChunks, relevant)
      pagesOf(chunk) == {chunk.images[k].page : k \in 1..Len(chunk.images)}
      relevantPages == UNION {pagesOf(relevantChunks[c]) : c \in 1..Len(relevantChunks)}
      onRelevant(img) == img.page \in relevantPages
      targetImages == IF topicContext # Undefined /\ topicContext[1] # <<>>
                      THEN SelectSeq(cached.pageImages, onRelevant)
                      ELSE ofPages
  IN  IF cached = Null
      THEN [isError |-> TRUE, kind |-> "notExtracted", images |-> <<>>]
      ELSE IF Len(targetImages) = 0
      THEN [isError |-> FALSE, kind |-> "noImages", images |-> <<>>]
      ELSE [isError |-> FALSE,
            kind    |-> "images",
            found   |-> Len(targetImages),
            images  |-> Slice(targetImages, MAX_VISUAL_IMAGES)]

\* The variant's extractChapterContent once the PDF is known to exist.
Img_ExtractOrReuse(pdf, cached, files, now, chapterName, forceReextract) ==
  IF ~forceReextract /\ cached # Null
  THEN AlreadyExtracted(cached, files)
  ELSE Completed(Img_comprehensiveExtractPDF(pdf, chapterName, now, files), files)

Img_extractChapterContent(lib, files, now, chapterName, forceReextract) ==
  IF ~lib[chapterName].exists
  THEN [result |-> [isError |-> TRUE, kind |-> "error"],
        effect |-> NothingWritten(files)]
  ELSE Img_ExtractOrReuse(lib[chapterName], CachedContentIn(files, chapterName),
                          files, now, chapterName, forceReextract)

-----------------------------------------------------------------------------
(* The chapters directory of the variant and its state machine.            *)

ImagePdf(pdf2json, images) == [exists |-> TRUE, pdf2json |-> pdf2json, images |-> images]
ImagesFail        == [failed |-> TRUE, pages |-> <<>>]
PageImages(pages) == [failed |-> FALSE, pages |-> pages]

\* One page, one word that is no topic.
ImgXyz == ImagePdf(DataReady(<< << <<"x","y","z">> >> >>), PageImages(<<1>>))
\* Two pages, a topic word each; both become images.
ImgCams ==
  ImagePdf(DataReady(<< << <<"c","a","m">> >>, << <<"n","u","t">> >> >>), PageImages(<<1, 2>>))
\* The same text; the conversion to images fails.
ImgCamsNoImages ==
  ImagePdf(DataReady(<< << <<"c","a","m">> >>, << <<"n","u","t">> >> >>), ImagesFail)
\* PDF2JSON reports an error; the conversion delivers no page.
ImgUnreadable == ImagePdf(DataError, PageImages(<<>>))
\* parseBuffer throws.
ImgThrows == ImagePdf(ParseThrows, ImagesFail)

ImageLibraries ==
  {lib \in [FileSet -> {NoPdf, ImgXyz, ImgCams, ImgCamsNoImages, ImgUnreadable, ImgThrows}] :
     /\ lib[File1] \in {ImgXyz, ImgUnreadable, ImgThrows}
     /\ lib[File2] \in {ImgCams, ImgCamsNoImages, NoPdf}}

QueryCamXyz == <<"c","a","m"," ","x","y","z">>
ImageSearchRequests == {QueryCam, QueryCamXyz} \X {Undefined, Def(1), Def(2)}

ImageInit ==
  /\ server = ImageServer
  /\ library \in ImageLibraries
  /\ cache = <<>>
  /\ clock = 0
  /\ written = Null
  /\ writing = Null
  /\ inflight = <<>>
  /\ console = OriginalConsole
  /\ extracted = {}
  /\ last = [op |-> "none"]
  /\ fnIn = [fn |-> "none"]
  /\ fnOut = [done |-> FALSE]

ImageListChapters ==
  /\ server = ImageServer
  /\ last' = [op |-> "listChapters", result |-> Img_listChapters(library, cache)]
  /\ UNCHANGED <<library, cache, clock, written, extracted, fnIn, fnOut, server, writing, inflight, console>>

ImageSearchContent ==
  \E request \in ImageSearchRequests :
    /\ server = ImageServer
    /\ last' = [op          |-> "searchContent",
                query       |-> request[1],
                max_results |-> request[2],
                result      |-> Img_searchContent(library, cache, request[1],
                                                  JsOr(request[2], Def(DEFAULT_MAX_RESULTS))[1])]
    /\ UNCHANGED <<library, cache, clock, written, extracted, fnIn, fnOut, server, writing, inflight, console>>

ImageGetChapterSection ==
  \E chapterName \in FileSet, section_topic \in SectionTopics, context_level \in ContextLevels :
    /\ server = ImageServer
    /\ last' = [op            |-> "getChapterSection",
                chapterName   |-> chapterName,
                section_topic |-> section_topic,
                context_level |-> context_level,
                result        |-> Img_getChapterSection(
                                    cache, chapterName, section_topic,
                                    IF context_level = Undefined THEN "detailed"
                                    ELSE context_level[1])]
    /\ UNCHANGED <<library, cache, clock, written, extracted, fnIn, fnOut, server, writing, inflight, console>>

ImageExtractChapterContent ==
  \E chapterName \in FileSet, force_reextract \in BOOLEAN :
    /\ server = ImageServer
    /\ Settles(Img_extractChapterContent(library, cache, clock, chapterName,
                                         force_reextract),
               chapterName,
               [op              |-> "extractChapterContent",
                chapterName     |-> chapterName,
                force_reextract |-> force_reextract,
                result          |-> Null])
    /\ UNCHANGED <<library, fnIn, fnOut, server, writing, inflight, console>>

\* page_numbers and topic_context of a get_visual_content request.
VisualRequests ==
  {Undefined, Def(<<>>), Def(<<2>>)} \X {Undefined, Def(QueryCam)}

ImageGetVisualContent ==
  \E chapterName \in FileSet, request \in VisualRequests :
    /\ server = ImageServer
    /\ last' = [op            |-> "getVisualContent",
                chapterName   |-> chapterName,
                page_numbers  |-> request[1],
                topic_context |-> request[2],
                result        |-> Img_getVisualContent(cache, chapterName,
                                                       request[1], request[2])]
    /\ UNCHANGED <<library, cache, clock, written, extracted, fnIn, fnOut, server, writing, inflight, console>>

ImageNext ==
  \/ ImageListChapters
  \/ ImageSearchContent
  \/ ImageGetChapterSection
  \/ ImageExtractChapterContent
  \/ ImageGetVisualContent

ImageSpec == ImageInit /\ [][ImageNext]_vars

\* Either server.
ServersInit == Init \/ ImageInit
ServersNext == Next \/ ImageNext
ServersSpec == ServersInit /\ [][ServersNext]_vars

-----------------------------------------------------------------------------
(* Properties of the book server.                                          *)

\* A record as the data model describes it: it has a page count.
ValidRecord(record) == record.totalPages # Undefined

\* C2: cache round trip: for any valid extraction record, after
\* comprehensiveExtractPDF has written it for chapter c, and as long as
\* nothing has been written since, getCachedContent(c) returns a record
\* deeply equal to the one written.
C2_CacheRoundTrip ==
  (written # Null /\ ValidRecord(written))
    => getCachedContent(written.chapterName) = written

\* A valid record with several chunks, some with topics and some without,
\* has been written.
C2_Witness ==
  /\ written # Null
  /\ ValidRecord(written)
  /\ \E j, k \in 1..Len(written.textChunks) :
       written.textChunks[j].topics = <<>> /\ written.textChunks[k].topics # <<>>

\* The request a step serves is extractChapterContent without force for a
\* chapter whose record loads before the step.
UnforcedOnCached ==
  /\ last'.op = "extractChapterContent"
  /\ ~last'.force_reextract
  /\ CachedContentIn(cache, last'.chapterName) # Null

\* C3 as stated: extractChapterContent without force on a chapter that
\* already has a loadable cache record performs no extraction, leaves the
\* record (extractedAt included) unchanged and returns the existing summary;
\* extraction runs only when forced or when no record is loadable.
C3_AsStated ==
  [][ /\ UnforcedOnCached =>
           /\ cache' = cache
           /\ last'.result.kind = "alreadyExtracted"
      /\ (last'.op = "extractChapterContent" /\ cache' # cache) =>
           \/ last'.force_reextract
           \/ CachedContentIn(cache, last'.chapterName) = Null ]_vars

\* C3, amended: extractChapterContent without force on a chapter whose
\* source PDF exists and that already has a loadable cache record performs
\* no extraction, leaves the record (extractedAt included) unchanged and
\* returns the existing summary, which shows the record's extractedAt; when
\* the PDF is missing the cache is left unchanged as well; extraction runs
\* only when forced or when no record is loadable.
C3_NoOpWhenCached ==
  [][ /\ UnforcedOnCached =>
           /\ cache' = cache
           /\ clock' = clock
           /\ library[<<last'.bookName, last'.chapterName>>].pdf.exists =>
                /\ last'.result.kind = "alreadyExtracted"
                /\ last'.result.extractedAt =
                     CachedContentIn(cache, last'.chapterName).extractedAt
      /\ (last'.op = "extractChapterContent" /\ cache' # cache) =>
           \/ last'.force_reextract
           \/ CachedContentIn(cache, last'.chapterName) = Null ]_vars

\* An unforced extractChapterContent has returned the summary of a record
\* that an earlier extraction wrote.
C3_Witness ==
  /\ last.op = "extractChapterContent"
  /\ ~last.force_reextract
  /\ last.result.kind = "alreadyExtracted"
  /\ clock > last.result.extractedAt

\* C4: once a chapter has a cache record it has one after every later
\* operation, and the record's content changes only by a re-extraction of
\* that same chapter.
C4_RecordPersists ==
  [][ \A chapter \in extracted :
        LET before == CachedContentIn(cache, chapter[2])
            after  == CachedContentIn(cache', chapter[2])
        IN  /\ after # Null
            /\ after # before =>
                 /\ last'.op \in {"extractChapterContent", "getChapterText"}
                 /\ <<last'.bookName, last'.chapterName>> = chapter ]_vars

\* C5: the cache holds one record per chapter, keyed by chapter identity:
\* a listing reports a chapter as extracted only if that chapter (book and
\* file) has been extracted, and extracting a chapter never overwrites the
\* record of another chapter.
C5_KeyedByChapter ==
  [][ /\ last'.op = "listBooksAndChapters" =>
           \A b \in 1..Len(last'.result.books) :
             LET book == last'.result.books[b]
             IN  \A k \in 1..Len(book.chapters) :
                   book.chapters[k].extraction.extracted
                     => <<book.bookName, book.chapters[k].filename>> \in extracted'
      /\ \A chapter \in extracted :
           (/\ last'.op \in {"extractChapterContent", "getChapterText"}
            /\ <<last'.bookName, last'.chapterName>> # chapter)
             => CachedContentIn(cache', chapter[2]) = CachedContentIn(cache, chapter[2])
    ]_vars

\* C6: getChapterText on a chapter with no cache record whose source PDF
\* exists extracts the chapter and persists its record before returning:
\* right afterwards a listing shows the chapter extracted and
\* extractChapterContent without force reports it already extracted.
C6_TextExtractsAndPersists ==
  [][ (/\ last'.op = "getChapterText"
       /\ CachedContentIn(cache, last'.chapterName) = Null
       /\ library[<<last'.bookName, last'.chapterName>>].pdf.exists)
        => /\ ExtractionStatus(CachedContentIn(cache', last'.chapterName)).extracted
           /\ extractChapterContent(library', cache', clock', last'.bookName,
                                    last'.chapterName, FALSE).result.kind
                = "alreadyExtracted" ]_vars

LevelChunks(context_level) ==
  IF context_level = Def("brief") THEN 1
  ELSE IF context_level = Def("comprehensive") THEN 3
  ELSE 2

\* The 1-based positions of the chunks of a record that match a topic.
MatchingChunks(cached, section_topic) ==
  {k \in 1..Len(cached.textChunks) :
     ChunkMatches(cached.textChunks[k], QueryWords(section_topic))}

\* C8: getChapterSection returns exactly min(N, m) chunks, m being the
\* number of chunks matching the topic and N being 1 for 'brief', 2 for
\* 'detailed' (the default), 3 for 'comprehensive'; they are the first
\* min(N, m) matching chunks in chunk (id) order.
C8_FirstMatchingChunks ==
  (last.op = "getChapterSection" /\ getCachedContent(last.chapterName) # Null) =>
    LET cached   == getCachedContent(last.chapterName)
        matching == MatchingChunks(cached, last.section_topic)
        n        == Min(LevelChunks(last.context_level), Cardinality(matching))
        nth(j)   == CHOOSE k \in matching : Cardinality({i \in matching : i <= k}) = j
    IN  /\ Len(last.result.evidence) = n
        /\ \A j \in 1..n :
             /\ last.result.evidence[j].id = cached.textChunks[nth(j)].id
             /\ last.result.evidence[j].text = cached.textChunks[nth(j)].text

\* A comprehensive section has been returned for a chapter with four
\* matching chunks: the third quoted chunk comes after a chunk that does not
\* match, and the fourth matching chunk is left out.
C8_Witness ==
  /\ last.op = "getChapterSection"
  /\ last.context_level = Def("comprehensive")
  /\ getCachedContent(last.chapterName) # Null
  /\ Cardinality(MatchingChunks(getCachedContent(last.chapterName), last.section_topic)) = 4
  /\ Len(last.result.evidence) = 3
  /\ last.result.evidence[3].id = 3

\* The chapters of the library that qualify for a query: the PDF is listed,
\* a record loads for it, the metadata filter of its book lets it through,
\* and it has a matching chunk or a placeholder match.
QualifyingChapters(lib, files, query) ==
  LET queryWords == QueryWords(query)
      score(chapter) == MetadataScore(lib[chapter].metadata, queryWords)
      listed(chapter) == lib[chapter].pdf.exists
      bookHasMatches(bookDir) ==
        \E file \in FileSet : listed(<<bookDir, file>>) /\ score(<<bookDir, file>>) > 0
      matches(chapter) ==
        LET cached == CachedContentIn(files, chapter[2])
        IN  /\ cached # Null
            /\ \/ \E k \in 1..Len(cached.textChunks) :
                    ChunkMatches(cached.textChunks[k], queryWords)
               \/ score(chapter) >= 50
  IN  {chapter \in BookSet \X FileSet :
         /\ listed(chapter)
         /\ bookHasMatches(chapter[1]) => score(chapter) > 0
         /\ matches(chapter)}

\* The max_results a search was made with (3 when the request gave none).
MaxResultsOf(request) ==
  IF request.max_results = Undefined THEN 3 ELSE request.max_results[1]

RankedChapters(lib, files, query) ==
  LET results == RankedResults(lib, files, query)
  IN  {<<results[k].book, results[k].chapter>> : k \in 1..Len(results)}

\* A record loads for the chapter and one of its chunks passes the filter
\* of the query: a query word occurs in its lower-cased text or equals one
\* of its topics.
HasMatchingChunk(files, chapter, query) ==
  LET cached == CachedContentIn(files, chapter[2])
  IN  /\ cached # Null
      /\ \E k \in 1..Len(cached.textChunks) :
           ChunkMatches(cached.textChunks[k], QueryWords(query))

\* C11: in searchContent every cached chapter with at least one chunk that
\* matches the query is among the ranked results before the truncation to
\* maxResults, whatever the sidecar metadata of that chapter or of the other
\* chapters of its book; a cached chapter with no matching chunk and no
\* metadata match is excluded.
C11_MatchingChaptersRanked ==
  last.op = "searchContent" =>
    \A chapter \in BookSet \X FileSet :
      (/\ library[chapter].pdf.exists
       /\ chapter \in extracted
       /\ CachedContentIn(cache, chapter[2]) # Null) =>
        /\ HasMatchingChunk(cache, chapter, last.query)
             => chapter \in RankedChapters(library, cache, last.query)
        /\ (/\ ~HasMatchingChunk(cache, chapter, last.query)
            /\ MetadataScore(library[chapter].metadata, QueryWords(last.query)) = 0)
             => chapter \notin RankedChapters(library, cache, last.query)

\* C12: on the metadata-boosting server a cached chapter whose metadata
\* score for the query is greater than zero is a search result even when
\* none of its chunks matches the query.
C12_MetadataAloneQualifies ==
  last.op = "searchContent" =>
    \A chapter \in BookSet \X FileSet :
      (/\ library[chapter].pdf.exists
       /\ chapter \in extracted
       /\ CachedContentIn(cache, chapter[2]) # Null
       /\ MetadataScore(library[chapter].metadata, QueryWords(last.query)) > 0)
        => chapter \in RankedChapters(library, cache, last.query)

\* C17: a parse failure in the text extractors is never fatal: whenever the
\* source PDF can be read, whichever way PdfReader and PDF2JSON fail,
\* comprehensiveExtractPDF persists a valid, possibly empty, chapter record
\* and extractChapterContent returns a result without the error flag.
C17_ParseFailureNotFatal ==
  [][ (/\ last'.op = "extractChapterContent"
       /\ library[<<last'.bookName, last'.chapterName>>].pdf.exists
       /\ last'.result.kind # "alreadyExtracted")
        => /\ ~last'.result.isError
           /\ CachedContentIn(cache', last'.chapterName) # Null
           /\ CachedContentIn(cache', last'.chapterName).chapterName = last'.chapterName
           /\ CachedContentIn(cache', last'.chapterName).extractedAt = clock ]_vars

\* What the dispatcher returns for a request, and the cache directory the
\* handler leaves, on a Books directory and a cache directory.
Answered(lib, files, now, request) ==
  CASE request.op = "listBooksAndChapters" ->
         [result |-> listBooksAndChapters(lib, files), effect |-> NothingWritten(files)]
    [] request.op = "searchContent" ->
         [result |-> searchContent(lib, files, request.query,
                                   JsOr(request.max_results, Def(DEFAULT_MAX_RESULTS))[1]),
          effect |-> NothingWritten(files)]
    [] request.op = "getChapterSection" ->
         [result |-> getChapterSection(files, request.bookName, request.chapterName,
                                       request.section_topic,
                                       IF request.context_level = Undefined
                                       THEN "detailed" ELSE request.context_level[1]),
          effect |-> NothingWritten(files)]
    [] request.op = "extractChapterContent" ->
         extractChapterContent(lib, files, now, request.bookName, request.chapterName,
                               request.force_reextract)
    [] request.op = "getChapterText" ->
         getChapterText(lib, files, now, request.bookName, request.chapterName,
                        JsOr(request.start_chars, Def(0))[1],
                        JsOr(request.length, Def(DEFAULT_LENGTH))[1],
                        request.force_reextract)

\* The cache directory without the files that cannot be parsed.
WithoutUnparseable(files) ==
  [file \in {f \in DOMAIN files : files[f] # Unparseable} |-> files[file]]

\* A request was answered with the result of an outcome and left, apart
\* from unparseable files, the cache directory of that outcome.
SameOutcome(outcome, result, files) ==
  /\ result = outcome.result
  /\ WithoutUnparseable(files) = outcome.effect.files

\* C18: an unreadable or unparseable cache record behaves exactly like an
\* absent one in every operation: each request is answered as it would be
\* were the unparseable files not there (listing reports extracted:false,
\* search skips the chapter, getChapterSection returns the not-extracted
\* error, extractChapterContent without force and getChapterText re-extract
\* and overwrite the record), and apart from unparseable files the cache
\* directory is left as it would be.
C18_UnparseableAsAbsent ==
  [][ last'.op # "none" =>
        SameOutcome(Answered(library, WithoutUnparseable(cache), clock, last'),
                    last'.result, cache')
    ]_vars

\* getChapterSection has answered "not extracted" for a chapter whose cache
\* file is there but cannot be parsed, while another chapter has a record.
C18_Witness ==
  /\ last.op = "getChapterSection"
  /\ last.result.kind = "notExtracted"
  /\ CacheFile(last.chapterName) \in DOMAIN cache
  /\ cache[CacheFile(last.chapterName)] = Unparseable
  /\ \E chapterName \in FileSet : getCachedContent(chapterName) # Null

\* The Books directory without the sidecar files that do not hold a
\* metadata object.
WithoutMalformedSidecars(lib) ==
  [chapter \in DOMAIN lib |->
     IF lib[chapter].metadata.exists /\ ~IsObject(lib[chapter].metadata)
     THEN Chapter(lib[chapter].pdf, NoMetadata)
     ELSE lib[chapter]]

\* The cache directory without the files that do not hold a record.
WithoutMalformedRecords(files) ==
  [file \in {f \in DOMAIN files :
               /\ files[f] # Unparseable
               /\ "textChunks" \in DOMAIN JSONParse(files[f])} |-> files[file]]

\* C19: a malformed sidecar metadata file or cache record for one chapter
\* never aborts a whole listing or search: the listing and the search
\* answer as they would were the malformed files absent, every other
\* chapter being listed or searched.
C19_MalformedAsAbsent ==
  last.op \in {"listBooksAndChapters", "searchContent"} =>
    last.result = Answered(WithoutMalformedSidecars(library),
                           WithoutMalformedRecords(cache), clock, last).result

\* Searches alone answer as they would were the malformed files absent.
C19_SearchNotAborted ==
  last.op = "searchContent" =>
    last.result = Answered(WithoutMalformedSidecars(library),
                           WithoutMalformedRecords(cache), clock, last).result

\* C20: re-extraction replaces the cached record atomically from a
\* reader's point of view: a request that reads the cache while chapter c,
\* which already had a record, is re-extracted is answered from the
\* complete old record or from the complete new record, never from a
\* partial record and never as if c had no record.
C20_AtomicReplacement ==
  [][ (/\ writing # Null
       /\ writing' = writing
       /\ CachedContentIn(writing.before, writing.chapter[2]) # Null
       /\ last'.op \in {"listBooksAndChapters", "searchContent", "getChapterSection"})
        => \/ last'.result = Answered(library, writing.before, clock, last').result
           \/ last'.result = Answered(library, writing.effect.files, clock, last').result
    ]_vars

\* C21: two extractions of the same chapter are never in progress at the
\* same time: a second request that requires extracting chapter c does not
\* begin extracting or writing c's record until the first has persisted
\* its record.
C21_OneExtractionPerChapter ==
  \A i, j \in 1..Len(inflight) :
    (i # j /\ Extracting(inflight[i]) /\ Extracting(inflight[j]))
      => inflight[i].chapter # inflight[j].chapter

\* C27: the process-wide console.error and console.warn that
\* extractTextWithPDF2JSON replaces during parsing are the original
\* functions again once every started extraction has completed, for every
\* outcome and every interleaving of the extractions.
C27_ConsoleRestored ==
  (\A i \in 1..Len(inflight) : ~Extracting(inflight[i])) => console = OriginalConsole

\* C22: when the source PDF does not exist, extractChapterContent, and
\* getChapterText when it has to extract, return a result with the error
\* flag set and leave the cache records of every chapter unchanged.
C22_MissingPdfIsError ==
  [][ (/\ last'.op \in {"extractChapterContent", "getChapterText"}
       /\ ~library[<<last'.bookName, last'.chapterName>>].pdf.exists
       /\ \/ last'.op = "extractChapterContent"
          \/ last'.force_reextract
          \/ CachedContentIn(cache, last'.chapterName) = Null)
        => /\ last'.result.isError
           /\ cache' = cache
           /\ clock' = clock ]_vars

\* extractChapterContent has answered with an error for a chapter whose
\* PDF is gone while the cache holds a record under its name.
C22_Witness ==
  /\ last.op = "extractChapterContent"
  /\ ~library[<<last.bookName, last.chapterName>>].pdf.exists
  /\ last.result.isError
  /\ getCachedContent(last.chapterName) # Null

\* The record a cache file holds has a page count of at least one.
HasPages(json) ==
  LET record == JSONParse(json)
  IN  /\ "totalPages" \in DOMAIN record
      /\ record.totalPages # Undefined
      /\ record.totalPages[1] >= 1

\* C26: every persisted record has totalPages >= 1, also when the
\* extractor obtained no page structure.
C26_AtLeastOnePage ==
  \A file \in DOMAIN cache : cache[file] # Unparseable => HasPages(cache[file])

\* C29: when a forced re-extraction of a chapter that has a cache record
\* ends with an error result of extractChapterContent or getChapterText, the
\* record the cache held for the chapter is still there, unchanged.
C29_FailedReextractionKeepsRecord ==
  [][ (/\ last'.op \in {"extractChapterContent", "getChapterText"}
       /\ last'.force_reextract
       /\ CachedContentIn(cache, last'.chapterName) # Null
       /\ last'.result.isError)
        => /\ CacheFile(last'.chapterName) \in DOMAIN cache'
           /\ cache'[CacheFile(last'.chapterName)] = cache[CacheFile(last'.chapterName)] ]_vars

-----------------------------------------------------------------------------
(* Properties of both servers.                                             *)

\* Every chapter result a search found, those cut off by max_results too.
FoundResults ==
  IF server = BookServer THEN PushedResults(library, cache, last.query)
  ELSE Img_Results(library, cache, last.query)

\* The results are in descending order of their best score, and no result
\* that was cut off has a better score than one that is returned.
BestFirst(kept, found) ==
  /\ \A j, k \in 1..Len(kept) :
       j < k => MaxScore(kept[j]) >= MaxScore(kept[k])
  /\ \A d \in 1..Len(found) :
       (\A k \in 1..Len(kept) : kept[k] # found[d])
         => \A k \in 1..Len(kept) : MaxScore(found[d]) <= MaxScore(kept[k])

\* C10: the chapter results searchContent returns are ordered by descending
\* best chunk score of each chapter, and the results dropped by the
\* truncation to maxResults never have a higher best score than a result
\* that is kept, on the book server and on the image-capable variant.
C10_BestScoreFirst ==
  last.op = "searchContent" => BestFirst(last.result.sources, FoundResults)

\* The same on the book server alone.
BookResultsBestFirst ==
  (server = BookServer /\ last.op = "searchContent")
    => BestFirst(last.result.sources, FoundResults)

\* C30: when page_numbers is given and not empty, every image
\* getVisualContent returns is of a page in page_numbers, with or without a
\* topic context, and at most 5 images are returned.
C30_ImagesOfRequestedPages ==
  (/\ server = ImageServer
   /\ last.op = "getVisualContent"
   /\ last.page_numbers # Undefined
   /\ last.page_numbers[1] # <<>>)
    => /\ Len(last.result.images) <= MAX_VISUAL_IMAGES
       /\ \A k \in 1..Len(last.result.images) :
            \E p \in 1..Len(last.page_numbers[1]) :
              last.page_numbers[1][p] = last.result.images[k].page

-----------------------------------------------------------------------------
(* The chunker on its own: every text up to MaxTextLen characters, every   *)
(* chunk size up to MaxChunkSize, and the page maps an extractor can give. *)

ChunkAlphabet == {"c", "a", "m"}

RECURSIVE StringsUpTo(_, _)
StringsUpTo(alphabet, n) ==
  IF n = 0 THEN {<<>>}
  ELSE LET shorter == StringsUpTo(alphabet, n - 1)
       IN  shorter \cup {Append(s, c) : s \in shorter, c \in alphabet}

\* No page structure, one page holding the text, or two pages split at k.
PageDatasOf(text) ==
  {<<>>, <<text>>}
    \cup {<<Substring(text, 0, k), Substring(text, k, Len(text))>> : k \in 1..Len(text)}

NoRequest == [op |-> "none"]
NoCall    == [fn |-> "none"]
NoResult  == [done |-> FALSE]

ServerIdle ==
  /\ server = "none"
  /\ library = <<>>
  /\ cache = <<>>
  /\ clock = 0
  /\ written = Null
  /\ writing = Null
  /\ inflight = <<>>
  /\ console = OriginalConsole
  /\ extracted = {}
  /\ last = NoRequest

\* The page images of a document of n pages.
PageImagesOf(n) == [k \in 1..n |-> [page |-> k]]

ChunkInit ==
  /\ ServerIdle
  /\ \E text \in StringsUpTo(ChunkAlphabet, MaxTextLen), chunkSize \in 1..MaxChunkSize :
       \/ \E pageData \in PageDatasOf(text) :
            fnIn = [fn         |-> "createPageAwareChunks",
                    fullText   |-> text,
                    pageData   |-> pageData,
                    totalPages |-> Def(Len(pageData)),
                    chunkSize  |-> chunkSize]
       \/ \E totalPages \in 0..MaxPages, images \in BOOLEAN :
            /\ ~images => totalPages >= 1
            /\ fnIn = [fn         |-> "createTextImageChunks",
                       fullText   |-> text,
                       pageImages |-> IF images THEN PageImagesOf(totalPages) ELSE <<>>,
                       totalPages |-> totalPages,
                       chunkSize  |-> chunkSize]
  /\ fnOut = NoResult

CallChunker ==
  /\ fnIn.fn = "createPageAwareChunks"
  /\ fnOut = NoResult
  /\ fnOut' = [done   |-> TRUE,
               chunks |-> PageAwareChunks(fnIn.fullText, fnIn.pageData,
                                          fnIn.totalPages, fnIn.chunkSize)]
  /\ UNCHANGED <<library, cache, clock, written, extracted, last, fnIn, server, writing, inflight, console>>

CallImageChunker ==
  /\ fnIn.fn = "createTextImageChunks"
  /\ fnOut = NoResult
  /\ fnOut' = [done   |-> TRUE,
               chunks |-> TextImageChunks(fnIn.fullText, fnIn.pageImages,
                                          fnIn.totalPages, fnIn.chunkSize)]
  /\ UNCHANGED <<library, cache, clock, written, extracted, last, fnIn, server, writing, inflight, console>>

ChunkNext == CallChunker \/ CallImageChunker

ChunkSpec == ChunkInit /\ [][ChunkNext]_vars

\* The chunks' [startChar, endChar) ranges partition [0, L) in id order, and
\* their texts concatenate to the full text.
PartitionsText(chunks, fullText) ==
  /\ (fullText = <<>>) <=> (chunks = <<>>)
  /\ \A k \in 1..Len(chunks) :
       /\ chunks[k].id = k - 1
       /\ chunks[k].startChar = (IF k = 1 THEN 0 ELSE chunks[k - 1].endChar)
       /\ chunks[k].startChar < chunks[k].endChar
       /\ chunks[k].text = Substring(fullText, chunks[k].startChar, chunks[k].endChar)
  /\ chunks # <<>> => chunks[Len(chunks)].endChar = Len(fullText)
  /\ Concat([k \in 1..Len(chunks) |-> chunks[k].text]) = fullText

\* C1: for any text of length L and chunk size C, createPageAwareChunks (and
\* createTextImageChunks of the variant) emits chunks whose [startChar, endChar) ranges partition [0, L) exactly (first at
\* 0, each starting at the previous end, last ending at L, none empty) and
\* whose texts concatenated in id order are the text; an empty text yields no
\* chunk.
C1_ChunksPartitionText ==
  fnOut.done => PartitionsText(fnOut.chunks, fnIn.fullText)

\* A text that is not a whole number of chunks long has been chunked into
\* several chunks, the last one short.
C1_Witness ==
  /\ fnOut.done
  /\ fnIn.fn = "createPageAwareChunks"
  /\ Len(fnOut.chunks) >= 2
  /\ Len(fnIn.fullText) % fnIn.chunkSize # 0

\* The arguments are ones comprehensiveExtractPDF can pass: a text variant
\* extractor with an empty page map has an empty text; the image variant
\* counts the page images, or estimates at least one page when the
\* conversion fails.
ExtractorCanProduce(call) ==
  IF call.fn = "createPageAwareChunks"
  THEN call.pageData # <<>> \/ call.fullText = <<>>
  ELSE \/ call.totalPages = Len(call.pageImages)
       \/ call.pageImages = <<>> /\ call.totalPages >= 1

PagesOrdered(fn, chunk) ==
  IF fn = "createPageAwareChunks"
  THEN /\ chunk.startPage # Undefined
       /\ chunk.endPage # Undefined
       /\ chunk.startPage[1] <= chunk.endPage[1]
  ELSE chunk.startPage <= chunk.endPage

\* C23: every chunk createPageAwareChunks and createTextImageChunks emit for
\* a text, page map and page count the extractors can produce has
\* startPage <= endPage.
C23_StartPageBeforeEndPage ==
  (fnOut.done /\ ExtractorCanProduce(fnIn))
    => \A k \in 1..Len(fnOut.chunks) : PagesOrdered(fnIn.fn, fnOut.chunks[k])


-----------------------------------------------------------------------------
(* The text functions on their own: the score of a chunk, reconstructText  *)
(* and extractTopics on every text of a bounded set.                       *)

MaxScoredLen == 4
MaxRawLen    == 9
MaxTokens    == 3

ScoreAlphabet == {"c", "a", "m", "p"}
RawAlphabet   == {"a", " "}

\* Pieces of the texts given to extractTopics: vocabulary terms in either
\* case, a term that contains another, and text that is no term.
TopicTokens ==
  { <<"c","a","m">>, <<"C","a","m">>, <<"n","u","t">>, <<"k","n","o","t","s">>,
    <<"S","E","R","E","N","E">>, <<"s","e","r","e","n","e">>, <<" ">>, <<"x">> }

RECURSIVE TokenTexts(_)
TokenTexts(n) ==
  IF n = 0 THEN {<<>>}
  ELSE LET shorter == TokenTexts(n - 1)
       IN  shorter \cup {s \o t : s \in shorter, t \in TopicTokens}

\* "SERENE anchors use equalization and redundancy."
SereneText ==
  <<"S","E","R","E","N","E"," ","a","n","c","h","o","r","s"," ","u","s","e"," ",
    "e","q","u","a","l","i","z","a","t","i","o","n"," ","a","n","d"," ",
    "r","e","d","u","n","d","a","n","c","y",".">>

\* "cam amp nut": "cam" and "amp" overlap in "camp".
ScoreQuery == <<"c","a","m"," ","a","m","p"," ","n","u","t">>

\* text with word inserted after its first `at' characters.
Insert(text, word, at) ==
  Substring(text, 0, at) \o word \o Substring(text, at, Len(text))

MaxSnippetTokens == 3
MaxHalfWindow == 2

\* The pieces of a chunk text: two query words, one of them capitalised as
\* well, and other characters.
SnippetTokens == { <<"c","a","m">>, <<"C","a","m">>, <<"n","u","t">>, <<"x">> }

RECURSIVE SnippetTexts(_)
SnippetTexts(n) ==
  IF n = 0 THEN {<<>>}
  ELSE LET shorter == SnippetTexts(n - 1)
       IN  shorter \cup {s \o t : s \in shorter, t \in SnippetTokens}

\* Query words in either order, and a word that occurs in no text.
SnippetQueries ==
  { << <<"c","a","m">>, <<"n","u","t">> >>, << <<"n","u","t">>, <<"c","a","m">> >>,
    << <<"a","m","p">> >> }

TextInit ==
  /\ ServerIdle
  /\ \/ \E rawText \in StringsUpTo(RawAlphabet, MaxRawLen) :
          fnIn = [fn |-> "reconstructText", rawText |-> rawText]
     \/ \E text \in TokenTexts(MaxTokens) \cup {SereneText} :
          fnIn = [fn |-> "extractTopics", text |-> text]
     \/ \E text \in StringsUpTo(ScoreAlphabet, MaxScoredLen),
          w \in 1..Len(QueryWords(ScoreQuery)),
          topics \in {<<>>, << <<"c","a","m">> >>},
          metadataScore \in {0, 30} :
         \E at \in 0..Len(text) :
           fnIn = [fn            |-> "score",
                   text          |-> text,
                   topics        |-> topics,
                   metadataScore |-> metadataScore,
                   queryWords    |-> QueryWords(ScoreQuery),
                   added         |-> QueryWords(ScoreQuery)[w],
                   at            |-> at]
     \/ \E text \in SnippetTexts(MaxSnippetTokens),
          queryWords \in SnippetQueries,
          half \in 1..MaxHalfWindow :
          fnIn = [fn            |-> "getContextSnippet",
                  text          |-> text,
                  queryWords    |-> queryWords,
                  contextLength |-> 2 * half]
  /\ fnOut = NoResult

\* The scores of chunk A and of chunk B, which is A with one more occurrence
\* of a query word in its text.
CallScore ==
  /\ fnIn.fn = "score"
  /\ fnOut = NoResult
  /\ fnOut' = [done   |-> TRUE,
               scoreA |-> ChunkScore([text |-> fnIn.text, topics |-> fnIn.topics],
                                     fnIn.metadataScore, fnIn.queryWords),
               scoreB |-> ChunkScore([text   |-> Insert(fnIn.text, fnIn.added, fnIn.at),
                                      topics |-> fnIn.topics],
                                     fnIn.metadataScore, fnIn.queryWords)]
  /\ UNCHANGED <<library, cache, clock, written, extracted, last, fnIn, server, writing, inflight, console>>

\* reconstructText on a raw text, and on its own result (getChapterText
\* passes it the text of the record, which extractTextWithPDF2JSON already
\* reconstructed).
CallReconstruct ==
  /\ fnIn.fn = "reconstructText"
  /\ fnOut = NoResult
  /\ fnOut' = [done  |-> TRUE,
               once  |-> reconstructText(fnIn.rawText),
               twice |-> reconstructText(reconstructText(fnIn.rawText))]
  /\ UNCHANGED <<library, cache, clock, written, extracted, last, fnIn, server, writing, inflight, console>>

\* extractTopics on a text, and the chunks createPageAwareChunks makes of
\* a one-page chapter with that text when the text fits one chunk.
CallExtractTopics ==
  /\ fnIn.fn = "extractTopics"
  /\ fnOut = NoResult
  /\ fnOut' = [done   |-> TRUE,
               topics |-> extractTopics(fnIn.text),
               chunks |-> PageAwareChunks(fnIn.text, <<fnIn.text>>, Def(1),
                                          Len(fnIn.text) + 1)]
  /\ UNCHANGED <<library, cache, clock, written, extracted, last, fnIn, server, writing, inflight, console>>

\* getContextSnippet on a chunk text.
CallSnippet ==
  /\ fnIn.fn = "getContextSnippet"
  /\ fnOut = NoResult
  /\ fnOut' = [done    |-> TRUE,
               snippet |-> getContextSnippet(fnIn.text, fnIn.queryWords,
                                             fnIn.contextLength)]
  /\ UNCHANGED <<library, cache, clock, written, extracted, last, fnIn, server, writing, inflight, console>>

TextNext == CallScore \/ CallReconstruct \/ CallExtractTopics \/ CallSnippet

TextSpec == TextInit /\ [][TextNext]_vars

\* The position lies strictly inside an occurrence of one of the words.
SplitsOccurrence(text, words, at) ==
  \E w \in 1..Len(words), i \in 1..Len(text) :
    /\ MatchesAt(ToLowerCase(text), words[w], i)
    /\ i - 1 < at
    /\ at < i - 1 + Len(words[w])

\* C13 as stated: an occurrence of a query word added anywhere in the text
\* of a chunk never lowers the chunk's score.
C13_AsStated ==
  (fnOut.done /\ fnIn.fn = "score") => fnOut.scoreB >= fnOut.scoreA

\* C13: for a fixed query, metadata score and topics, a chunk whose text is
\* that of chunk A with one more occurrence of a query word, added at a
\* position that is not inside an occurrence of a query word in A, scores
\* at least as much as A.
C13_ScoreMonotone ==
  (/\ fnOut.done
   /\ fnIn.fn = "score"
   /\ ~SplitsOccurrence(fnIn.text, fnIn.queryWords, fnIn.at))
    => fnOut.scoreB >= fnOut.scoreA

\* "nut" added after "camp", which already scores for "cam" and "amp".
C13_Witness ==
  /\ fnOut.done
  /\ fnIn.fn = "score"
  /\ fnIn.text = <<"c","a","m","p">>
  /\ fnIn.added = <<"n","u","t">>
  /\ fnIn.at = 4
  /\ fnOut.scoreA = fnIn.metadataScore + 20 + 20 * Len(fnIn.topics)
  /\ fnOut.scoreB = fnOut.scoreA + 10

\* C14: reconstructText is idempotent: reconstructText(reconstructText(t))
\* equals reconstructText(t) for every string t.
C14_ReconstructIdempotent ==
  (fnOut.done /\ fnIn.fn = "reconstructText") => fnOut.twice = fnOut.once

\* The positions of the vocabulary at which the terms of a list stand, the
\* list being in vocabulary order without repetition.
InVocabularyOrder(topics) ==
  \E at \in [1..Len(topics) -> 1..Len(climbingTerms)] :
    /\ \A k \in 1..Len(topics) : topics[k] = climbingTerms[at[k]]
    /\ \A k \in 1..(Len(topics) - 1) : at[k] < at[k + 1]

\* C15: extractTopics(text) returns a duplicate-free list of terms of the
\* fixed vocabulary, in vocabulary order, and a vocabulary term is in the
\* result exactly when it is a substring of the lower-cased text.
C15_TopicsOfVocabulary ==
  (fnOut.done /\ fnIn.fn = "extractTopics") =>
    /\ InVocabularyOrder(fnOut.topics)
    /\ \A j, k \in 1..Len(fnOut.topics) : fnOut.topics[j] = fnOut.topics[k] => j = k
    /\ \A t \in 1..Len(climbingTerms) :
         (\E k \in 1..Len(fnOut.topics) : fnOut.topics[k] = climbingTerms[t])
           <=> Includes(ToLowerCase(fnIn.text), climbingTerms[t])

\* "Cam knots": a term in another case and a term that contains another
\* give three topics, in vocabulary order.
C15_Witness ==
  /\ fnOut.done
  /\ fnIn.fn = "extractTopics"
  /\ fnIn.text = <<"C","a","m"," ","k","n","o","t","s">>
  /\ fnOut.topics = << <<"k","n","o","t">>, <<"k","n","o","t","s">>, <<"c","a","m">> >>

\* C16: for a chapter whose text is "SERENE anchors use equalization and
\* redundancy." the topics of its chunk include every vocabulary term that
\* occurs in the text compared case-insensitively: 'anchor', 'SERENE' and
\* 'equalization' among them.
C16_SereneTopics ==
  (fnOut.done /\ fnIn.fn = "extractTopics" /\ fnIn.text = SereneText) =>
    /\ Len(fnOut.chunks) = 1
    /\ \A t \in 1..Len(climbingTerms) :
         Includes(ToLowerCase(fnIn.text), ToLowerCase(climbingTerms[t]))
           => \E k \in 1..Len(fnOut.chunks[1].topics) :
                fnOut.chunks[1].topics[k] = climbingTerms[t]

\* The number of positions of the lower-cased text at which word occurs.
Occurrences(text, word) ==
  Cardinality({i \in 1..Len(text) : MatchesAt(ToLowerCase(text), word, i)})

RECURSIVE TotalOccurrences(_, _)
TotalOccurrences(text, words) ==
  IF words = <<>> THEN 0
  ELSE Occurrences(text, Head(words)) + TotalOccurrences(text, Tail(words))

RECURSIVE TopicsAmong(_, _)
TopicsAmong(topics, words) ==
  IF topics = <<>> THEN 0
  ELSE (IF \E w \in 1..Len(words) : words[w] = Head(topics) THEN 1 ELSE 0)
         + TopicsAmong(Tail(topics), words)

StatedScore(text, topics, metadataScore, words) ==
  metadataScore + 10 * TotalOccurrences(text, words) + 20 * TopicsAmong(topics, words)

ScoredAsStated(score, text, topics, metadataScore, words) ==
  /\ score = StatedScore(text, topics, metadataScore, words)
  /\ (\E w \in 1..Len(words) : Includes(ToLowerCase(text), words[w])) => score >= 10

RECURSIVE EarliestIndex(_, _)
EarliestIndex(text, words) ==
  IF words = <<>> THEN Len(text)
  ELSE LET index == IndexOf(ToLowerCase(text), Head(words))
           rest  == EarliestIndex(text, Tail(words))
       IN  IF index # -1 /\ index < rest THEN index ELSE rest

AnyWordOccurs(text, words) ==
  \E w \in 1..Len(words) : Includes(ToLowerCase(text), words[w])

LeadingWindow(text, contextLength) ==
  Substring(text, 0, contextLength)
    \o (IF Len(text) > contextLength THEN Ellipsis ELSE <<>>)

CentredWindow(text, index, contextLength) ==
  LET start == Max(0, index - contextLength \div 2)
      end   == Min(Len(text), index + contextLength \div 2)
  IN  (IF start > 0 THEN Ellipsis ELSE <<>>)
        \o Substring(text, start, end)
        \o (IF end < Len(text) THEN Ellipsis ELSE <<>>)

\* C25: getContextSnippet centres its window on the smallest index at which
\* any query word occurs in the lower-cased text, whatever the order of the
\* query words (at index 0 the leading window counts as centred too); when
\* no query word occurs it returns the leading window of the text.
C25_SnippetAtEarliestWord ==
  (fnOut.done /\ fnIn.fn = "getContextSnippet")
    => LET earliest == EarliestIndex(fnIn.text, fnIn.queryWords)
       IN  IF ~AnyWordOccurs(fnIn.text, fnIn.queryWords)
           THEN fnOut.snippet = LeadingWindow(fnIn.text, fnIn.contextLength)
           ELSE \/ fnOut.snippet = CentredWindow(fnIn.text, earliest, fnIn.contextLength)
                \/ /\ earliest = 0
                   /\ fnOut.snippet = LeadingWindow(fnIn.text, fnIn.contextLength)

-----------------------------------------------------------------------------
(* A client that reads a cached chapter page by page with getChapterText:  *)
(* every call after the first asks for the position the last one reported. *)

MaxPagedLen   == 4
MaxPageLength == 3
MaxStartChars == 5

PagingInit ==
  /\ ServerIdle
  /\ \E text \in StringsUpTo(RawAlphabet, MaxPagedLen) \ {<<>>},
        length \in 1..MaxPageLength,
        start \in 0..MaxStartChars :
       fnIn = [fn          |-> "getChapterText",
               text        |-> text,
               length      |-> length,
               first       |-> start,
               start_chars |-> start,
               calls       |-> 0,
               collected   |-> <<>>]
  /\ fnOut = NoResult

\* getChapterText on the cached record, with the start_chars and length of
\* the request; the client keeps what it has read and where to go on.
ReadPage ==
  /\ fnIn.fn = "getChapterText"
  /\ fnOut.done => (~fnOut.result.isError /\ fnOut.result.continues)
  /\ LET answer == TextOf([text |-> fnIn.text],
                          JsOr(Def(fnIn.start_chars), Def(0))[1],
                          JsOr(Def(fnIn.length), Def(DEFAULT_LENGTH))[1],
                          cache).result
     IN  /\ fnOut' = [done |-> TRUE, result |-> answer]
         /\ fnIn' = IF answer.isError
                    THEN [fnIn EXCEPT !.calls = @ + 1]
                    ELSE [fnIn EXCEPT !.calls       = @ + 1,
                                      !.collected   = @ \o answer.text,
                                      !.start_chars = answer.endChars]
  /\ UNCHANGED <<library, cache, clock, written, extracted, last, server, writing, inflight, console>>

PagingNext == ReadPage

PagingSpec == PagingInit /\ [][PagingNext]_vars

\* The calls a text of length L takes at length characters a call.
CallsFor(L, length) == Max(1, CeilDiv(L, length))

\* C28: for a cached chapter with reconstructed text of length L,
\* getChapterText(startChars, length) with startChars >= 0 and length >= 1
\* reports a position with startChars <= endChars <= L and returns the
\* characters [startChars, endChars); called again and again from 0 with
\* the end it reported, it returns consecutive slices that add up to the
\* whole text, and the response without continuation marker is that of call
\* ceil(L / length).
C28_TextPaging ==
  (fnIn.fn = "getChapterText" /\ fnOut.done /\ ~fnOut.result.isError)
    => LET page  == fnOut.result
           whole == reconstructText(fnIn.text)
       IN  /\ page.startChars <= page.endChars
           /\ page.endChars <= Len(whole)
           /\ page.text = SubSeq(whole, page.startChars + 1, page.endChars)
           /\ fnIn.first = 0 =>
                /\ fnIn.collected = SubSeq(whole, 1, page.endChars)
                /\ page.continues => fnIn.calls < CallsFor(Len(whole), fnIn.length)
                /\ ~page.continues =>
                     /\ fnIn.collected = whole
                     /\ fnIn.calls = CallsFor(Len(whole), fnIn.length)

====
